---- MODULE Spec2Model ----
(***************************************************************************)
(* A model of web-behavior-tracker: the BehaviorTracker facade             *)
(* (src/src/BehaviorTracker.ts), its event handlers (InputEventHandler,    *)
(* MouseEventHandler, FormEventHandler, ClipboardEventHandler,             *)
(* CustomEventHandler) and the helpers of TrackingUtils (src/src/utils.ts).*)
(*                                                                         *)
(* One tracker instance lives in one page of one browser tab.  The DOM     *)
(* delivers interactions one at a time; every handler runs to completion.  *)
(* Date.now() is the variable now; one handler run reads one clock value.  *)
(* Optional properties of a record are modelled by what a property read    *)
(* yields: None for undefined (absent or set to undefined), Some(x) else.  *)
(***************************************************************************)
EXTENDS Integers, Sequences, FiniteSets, TLC

VARIABLES
  events,           \* BehaviorTracker.events
  startTime,        \* BehaviorTracker.startTime
  isTracking,       \* BehaviorTracker.isTracking
  sessionId,        \* BehaviorTracker.sessionId
  storage,          \* sessionStorage[STORAGE_KEY]: None or Some(text)
  lastInputValues,  \* InputEventHandler.lastInputValues
  lastInputTimes,   \* InputEventHandler.lastInputTimes
  customEvents,     \* CustomEventHandler.customEvents
  listeners,        \* number of listener sets attached to document
  unloadListeners,  \* number of beforeunload listeners attached to window
  options,          \* BehaviorTracker.options (fixed at construction)
  now,              \* the clock read by Date.now()
  nonce,            \* number of session identifiers generated so far
  storageFull,      \* whether sessionStorage.setItem throws QuotaExceededError
  others,           \* the other BehaviorTracker instances of the page
  lastOp            \* the operation that produced this state

vars == <<events, startTime, isTracking, sessionId, storage, lastInputValues,
          lastInputTimes, customEvents, listeners, unloadListeners, options,
          now, nonce, storageFull, others, lastOp>>

----------------------------------------------------------------------------
(* Bounds of the model. *)

MaxEvents == 2
MaxStarts == 2
MaxIds == 2
(* The clock at page load.  The real value is milliseconds since 1970;     *)
(* what the code depends on is that it exceeds every duration threshold.   *)
Epoch == 1000000

(* The clock readings at which something happens in the page. *)
ClockReadings == {Epoch, Epoch + 6000}

----------------------------------------------------------------------------
(* Optional values. *)

None == <<>>
Some(x) == <<x>>

(* a || b for strings: '' is falsy. *)
OrElse(a, b) == IF a # "" THEN a ELSE b

----------------------------------------------------------------------------
(* Configuration. *)

DefaultMinTimeSpent == 5000
DefaultMaxTimeSpent == 300000
DefaultThrottleDelay == 100

DefaultOptions ==
  [trackMouseMovements |-> FALSE,
   trackFocusBlur      |-> TRUE,
   trackInputChanges   |-> TRUE,
   trackClicks         |-> TRUE,
   trackCopyPaste      |-> TRUE,
   minTimeSpent        |-> DefaultMinTimeSpent,
   maxTimeSpent        |-> DefaultMaxTimeSpent,
   throttleDelay       |-> DefaultThrottleDelay]

(* The configurations a tracker is constructed with in this model. *)
OptionChoices == { DefaultOptions }

----------------------------------------------------------------------------
(* Strings.  A string is a TLA+ string; characters are its substrings of   *)
(* length one.                                                             *)

CharAt(s, i) == SubSeq(s, i, i)

UpperAlphabet == "ABCDEFGHIJKLMNOPQRSTUVWXYZ"
LowerAlphabet == "abcdefghijklmnopqrstuvwxyz"
DigitChars == "0123456789"

InString(c, alphabet) == \E i \in 1..Len(alphabet) : CharAt(alphabet, i) = c

IsSpace(c) == c = " "

LowerChar(c) ==
  IF InString(c, UpperAlphabet)
  THEN CharAt(LowerAlphabet, CHOOSE i \in 1..Len(UpperAlphabet) : CharAt(UpperAlphabet, i) = c)
  ELSE c

RECURSIVE LowerCased(_)
LowerCased(s) ==
  IF s = "" THEN ""
  ELSE LowerChar(CharAt(s, 1)) \o LowerCased(SubSeq(s, 2, Len(s)))

(* The tag names, ids, names and input types of the elements of the model. *)
Vocabulary ==
  {"", "INPUT", "SELECT", "FORM", "DIV", "BODY", "TEXTAREA", "email", "country",
   "agree", "signup", "box", "text", "checkbox", "select-one", "q"}

(* String.prototype.toLowerCase, tabulated over the vocabulary. *)
LowerCaseTable == [s \in Vocabulary |-> LowerCased(s)]

toLowerCase(s) == IF s \in Vocabulary THEN LowerCaseTable[s] ELSE LowerCased(s)

(* s.includes(t) *)
Includes(s, t) ==
  \E i \in 1..(Len(s) - Len(t) + 1) : SubSeq(s, i, i + Len(t) - 1) = t

(* s.substring(n) for 0 <= n *)
Substring(s, n) == IF n >= Len(s) THEN "" ELSE SubSeq(s, n + 1, Len(s))

(* Every character of s[from..to] belongs to the character class. *)
AllChars(s, from, to, class) ==
  \A i \in from..to : InString(CharAt(s, i), class)

----------------------------------------------------------------------------
(* DOM elements, as the handlers see them at the time of an interaction:   *)
(* identity (id, tagName, role, name, type) and current content.  For an   *)
(* element that is no input, select or textarea, value is the first        *)
(* non-empty of data-value, aria-valuetext, the value attribute and the    *)
(* text content.  NoTarget is an event whose target is null.               *)

Element(id, tag, role, name, inputType, value, checked) ==
  [present |-> TRUE, id |-> id, tagName |-> tag, role |-> role, name |-> name,
   inputType |-> inputType, value |-> value, checked |-> checked]

NoTarget ==
  [present |-> FALSE, id |-> "", tagName |-> "", role |-> "", name |-> "",
   inputType |-> "", value |-> "", checked |-> FALSE]

EmailInput(v) == Element("email", "INPUT", "", "email", "text", v, FALSE)
SelectEl     == Element("country", "SELECT", "", "country", "select-one", "us", FALSE)
CheckboxEl   == Element("agree", "INPUT", "", "agree", "checkbox", "on", TRUE)
FormEl       == Element("signup", "FORM", "", "", "", "", FALSE)
PlainDiv     == Element("box", "DIV", "", "", "", "hi", FALSE)
DocumentBody == Element("", "BODY", "", "", "", "", FALSE)

BoolText(b) == IF b THEN "true" ELSE "false"

FormTags ==
  {"input", "select", "textarea", "button", "fieldset", "form", "label",
   "optgroup", "option"}

FormRoles ==
  {"textbox", "checkbox", "radio", "combobox", "listbox", "button", "slider",
   "spinbutton"}

isFormElement(element) ==
  \/ toLowerCase(element.tagName) \in FormTags
  \/ (element.role # "" /\ element.role \in FormRoles)

getElementValue(element) ==
  IF element.tagName = "INPUT"
  THEN IF element.inputType = "checkbox" THEN BoolText(element.checked)
       ELSE IF element.inputType = "radio"
            THEN (IF element.checked THEN element.value ELSE "")
            ELSE element.value
  ELSE element.value

(* shouldTrackEvent is used by handleMouseEvent only. *)
shouldTrackEvent(eventType, opts) ==
  CASE eventType \in {"mouseover", "mouseout"} -> opts.trackMouseMovements
    [] eventType \in {"focus", "blur"} -> opts.trackFocusBlur
    [] eventType = "click" -> opts.trackClicks
    [] eventType \in {"input", "change"} -> opts.trackInputChanges
    [] OTHER -> TRUE

----------------------------------------------------------------------------
(* Behavior events.  The fields kept are those some code of the tracker    *)
(* reads; pageUrl, elementAttributes and elementState are snapshots that   *)
(* nothing reads back.  A boolean value is written as its text.            *)

createBehaviorEvent(type, target, value, clock, additionalData) ==
  [type            |-> type,
   elementId       |-> OrElse(target.id, ""),
   elementType     |-> toLowerCase(target.tagName),
   timestamp       |-> clock,
   value           |-> value,
   clipboardData   |-> additionalData.clipboardData,
   customEventName |-> additionalData.customEventName,
   customData      |-> additionalData.customData]

NoAdditionalData ==
  [clipboardData |-> None, customEventName |-> None, customData |-> None]

----------------------------------------------------------------------------
(* The autocomplete heuristic of TrackingUtils. *)

AutocompleteTimeWindow == 100
AutocompleteMinGrowth == 3
AutocompleteFieldMinGrowth == 2
CompleteWordMinLength == 5

isCompleteWordInput(currentValue, previousValue) ==
  LET addedText == Substring(currentValue, Len(previousValue)) IN
    \/ \E i \in 1..Len(addedText) : IsSpace(CharAt(addedText, i))
    \/ Includes(addedText, "@")
    \/ Len(addedText) > CompleteWordMinLength

AutocompleteFieldNames ==
  {"email", "name", "firstname", "lastname", "address", "city", "state",
   "zipcode", "postal", "country", "phone", "company", "organization"}

isAutocompleteField(target) ==
  LET fieldName == toLowerCase(target.name)
      fieldId   == toLowerCase(target.id)
      fieldType == toLowerCase(target.inputType)
  IN \E field \in AutocompleteFieldNames :
       \/ Includes(fieldName, field)
       \/ Includes(fieldId, field)
       \/ fieldType = "email"

LetterChars == UpperAlphabet \o LowerAlphabet
EmailLocalChars == LetterChars \o DigitChars \o "._%+-"
EmailDomainChars == LetterChars \o DigitChars \o ".-"
NameChars == LetterChars \o " "

(* /^[a-zA-Z0-9._%+-]+@[a-zA-Z0-9.-]+\.[a-zA-Z]{2,}$/ *)
MatchesEmail(s) ==
  \E at \in 2..Len(s) : \E dot \in (at + 2)..(Len(s) - 2) :
    /\ CharAt(s, at) = "@"
    /\ CharAt(s, dot) = "."
    /\ AllChars(s, 1, at - 1, EmailLocalChars)
    /\ AllChars(s, at + 1, dot - 1, EmailDomainChars)
    /\ AllChars(s, dot + 1, Len(s), LetterChars)

(* /^\d{5}(-\d{4})?$/ *)
MatchesZip(s) ==
  \/ Len(s) = 5 /\ AllChars(s, 1, 5, DigitChars)
  \/ /\ Len(s) = 10
     /\ AllChars(s, 1, 5, DigitChars)
     /\ CharAt(s, 6) = "-"
     /\ AllChars(s, 7, 10, DigitChars)

(* /^\d{3}-\d{3}-\d{4}$/ *)
MatchesPhone(s) ==
  /\ Len(s) = 12
  /\ AllChars(s, 1, 3, DigitChars)
  /\ CharAt(s, 4) = "-"
  /\ AllChars(s, 5, 7, DigitChars)
  /\ CharAt(s, 8) = "-"
  /\ AllChars(s, 9, 12, DigitChars)

(* /^[A-Za-z\s]+$/ *)
MatchesName(s) == Len(s) >= 1 /\ AllChars(s, 1, Len(s), NameChars)

hasAutocompletePatterns(currentValue, previousValue) ==
  LET addedText == Substring(currentValue, Len(previousValue)) IN
    \/ MatchesEmail(addedText)
    \/ MatchesZip(addedText)
    \/ MatchesPhone(addedText)
    \/ MatchesName(addedText)

(* An isAutocompleteEvent whose field rule asks for more than 3 new         *)
(* characters (variant, C28).                                              *)
isAutocompleteEvent_FieldGrowth(currentValue, previousValue, currentTime, lastInputTime, target) ==
  IF Len(currentValue) < Len(previousValue) THEN FALSE
  ELSE IF previousValue = "" THEN FALSE
  ELSE LET timeDiff  == currentTime - lastInputTime
           valueDiff == Len(currentValue) - Len(previousValue)
           isRapidLargeInput == timeDiff < AutocompleteTimeWindow
                                /\ valueDiff > AutocompleteMinGrowth
       IN \/ (isRapidLargeInput /\ isCompleteWordInput(currentValue, previousValue))
          \/ (isAutocompleteField(target) /\ valueDiff > AutocompleteMinGrowth)
          \/ hasAutocompletePatterns(currentValue, previousValue)

isAutocompleteEvent(currentValue, previousValue, currentTime, lastInputTime, target) ==
  IF Len(currentValue) < Len(previousValue) THEN FALSE
  ELSE IF previousValue = "" THEN FALSE
  ELSE LET timeDiff  == currentTime - lastInputTime
           valueDiff == Len(currentValue) - Len(previousValue)
           isRapidLargeInput == timeDiff < AutocompleteTimeWindow
                                /\ valueDiff > AutocompleteMinGrowth
       IN \/ (isRapidLargeInput /\ isCompleteWordInput(currentValue, previousValue))
          \/ (isAutocompleteField(target) /\ valueDiff > AutocompleteFieldMinGrowth)
          \/ hasAutocompletePatterns(currentValue, previousValue)

----------------------------------------------------------------------------
(* JSON.  JSON.stringify writes an object's properties that are not        *)
(* undefined; JSON.parse builds an object on which a property that was not *)
(* written reads as undefined.  The text of an event is the function from  *)
(* its written keys to their values.  Custom payloads are sequences of     *)
(* <<key, JSON literal>> pairs.                                            *)

OptionalKeys == {"clipboardData", "customEventName", "customData"}
EventKeys ==
  {"type", "elementId", "elementType", "timestamp", "value"} \cup OptionalKeys

JSONStringifyEvent(e) ==
  [k \in {x \in EventKeys : x \notin OptionalKeys \/ e[x] # None} |-> e[k]]

JSONParseEvent(text) ==
  LET read(k) == IF k \in DOMAIN text THEN text[k] ELSE None IN
    [type            |-> text["type"],
     elementId       |-> text["elementId"],
     elementType     |-> text["elementType"],
     timestamp       |-> text["timestamp"],
     value           |-> text["value"],
     clipboardData   |-> read("clipboardData"),
     customEventName |-> read("customEventName"),
     customData      |-> read("customData")]

JSONStringify(data) ==
  [sessionId |-> data.sessionId,
   events    |-> [i \in 1..Len(data.events) |-> JSONStringifyEvent(data.events[i])]]

JSONParse(text) ==
  [sessionId |-> text.sessionId,
   events    |-> [i \in 1..Len(text.events) |-> JSONParseEvent(text.events[i])]]

RECURSIVE JSONMembers(_)
JSONMembers(pairs) ==
  IF pairs = <<>> THEN ""
  ELSE "\"" \o pairs[1][1] \o "\":" \o pairs[1][2]
       \o (IF Len(pairs) > 1 THEN "," ELSE "") \o JSONMembers(Tail(pairs))

(* JSON.stringify(customData) *)
JSONText(customData) == "{" \o JSONMembers(customData) \o "}"

----------------------------------------------------------------------------
(* Session persistence (BehaviorTracker).  sessionStorage holds, under the *)
(* one key STORAGE_KEY, either nothing (None) or Some(text).  A session    *)
(* identifier `session_${Date.now()}_${random}` is the pair of the clock   *)
(* and the random suffix; successive random suffixes are distinct, so the  *)
(* suffix is the number of identifiers drawn before.                       *)

saveSessionData(data) == Some(JSONStringify(data))

(* A getOrCreateSessionId that never reads the stored item (variant, C12). *)
getOrCreateSessionId_AlwaysNew(store, clock, drawn) ==
  LET newSessionId == [ts |-> clock, rnd |-> drawn] IN
    [sessionId |-> newSessionId,
     storage   |-> IF store # None THEN store
                   ELSE saveSessionData([sessionId |-> newSessionId, events |-> <<>>]),
     nonce     |-> drawn + 1]

getOrCreateSessionId(store, clock, drawn) ==
  IF store # None
  THEN [sessionId |-> JSONParse(store[1]).sessionId, storage |-> store, nonce |-> drawn]
  ELSE LET newSessionId == [ts |-> clock, rnd |-> drawn] IN
         [sessionId |-> newSessionId,
          storage   |-> saveSessionData([sessionId |-> newSessionId, events |-> <<>>]),
          nonce     |-> drawn + 1]

(* A loadSessionData that ignores the stored snapshot (variant, C4). *)
loadSessionData_IgnoreStorage(store, current) == current

loadSessionData(store, current) ==
  IF store # None THEN JSONParse(store[1]).events ELSE current

(* new BehaviorTracker(options): the fields it sets that depend on storage *)
Construct(store, clock, drawn) ==
  LET g == getOrCreateSessionId(store, clock, drawn) IN
    [sessionId |-> g.sessionId,
     storage   |-> g.storage,
     nonce     |-> g.nonce,
     events    |-> loadSessionData(g.storage, <<>>)]

(* A clearSession that leaves the stored item in place, so the identifier *)
(* is read back from it (variant, C5).                                    *)
clearSession_KeepStoredItem(s, clock) ==
  LET g == getOrCreateSessionId(s.storage, clock, s.nonce) IN
    [events    |-> <<>>,
     startTime |-> clock,
     sessionId |-> g.sessionId,
     storage   |-> g.storage,
     nonce     |-> g.nonce]

(* clearSession() on the tracker fields s = [events, startTime, sessionId, *)
(* storage, nonce]                                                         *)
clearSession(s, clock) ==
  LET g == getOrCreateSessionId(None, clock, s.nonce) IN
    [events    |-> <<>>,
     startTime |-> clock,
     sessionId |-> g.sessionId,
     storage   |-> g.storage,
     nonce     |-> g.nonce]

----------------------------------------------------------------------------
(* Event handlers.  A handler works on a cell c = [events, storage,        *)
(* lastInputValues, lastInputTimes, raised]: the tracker state a listener  *)
(* can change, and whether a listener threw.                               *)

MapGet(m, k, default) == IF k \in DOMAIN m THEN m[k] ELSE default
MapSet(m, k, v) == [x \in DOMAIN m \cup {k} |-> IF x = k THEN v ELSE m[x]]
EmptyMap == <<>>

(* An onEventCreated that pushes without saving (variant, C11). *)
onEventCreated_NoSave(c, event) ==
  [c EXCEPT !.events = Append(c.events, event)]

(* An onEventCreated that overwrites the log with the new event (variant, *)
(* C10).                                                                  *)
onEventCreated_Overwrite(c, event) ==
  [c EXCEPT !.events = <<event>>,
            !.storage = saveSessionData([sessionId |-> sessionId,
                                         events |-> <<event>>])]

(* events.push(event), then saveSessionData: setItem throws when the       *)
(* storage is full, after the push.                                        *)
onEventCreated(c, event) ==
  IF storageFull
  THEN [c EXCEPT !.events = Append(c.events, event), !.raised = TRUE]
  ELSE [c EXCEPT !.events = Append(c.events, event),
                 !.storage = saveSessionData([sessionId |-> sessionId,
                                              events |-> Append(c.events, event)])]

Throw(c) == [c EXCEPT !.raised = TRUE]

(* The value handleInputEvent reads from the target, and its String(). *)
inputElementValue(target) ==
  IF target.tagName = "INPUT" /\ target.inputType = "checkbox"
  THEN BoolText(target.checked)
  ELSE target.value

inputCurrentValue(target) ==
  IF target.tagName = "INPUT" /\ target.inputType = "checkbox" /\ ~target.checked
  THEN ""
  ELSE inputElementValue(target)

(* A handleInputEvent that never chooses 'delete' (variant, C27). *)
classifyInput_NoDelete(lastValues, lastTimes, target, currentTime) ==
  LET elementId     == OrElse(target.id, "")
      currentValue  == inputCurrentValue(target)
      previousValue == OrElse(MapGet(lastValues, elementId, ""), "")
      lastInputTime == MapGet(lastTimes, elementId, 0)
  IN IF isAutocompleteEvent(currentValue, previousValue, currentTime,
                            lastInputTime, target)
     THEN "autocomplete"
     ELSE "input"

(* The event type handleInputEvent chooses, given the recorded history. *)
classifyInput(lastValues, lastTimes, target, currentTime) ==
  LET elementId     == OrElse(target.id, "")
      currentValue  == inputCurrentValue(target)
      previousValue == OrElse(MapGet(lastValues, elementId, ""), "")
      lastInputTime == MapGet(lastTimes, elementId, 0)
  IN IF Len(currentValue) < Len(previousValue) THEN "delete"
     ELSE IF isAutocompleteEvent(currentValue, previousValue, currentTime,
                                 lastInputTime, target)
          THEN "autocomplete"
          ELSE "input"

handleInputEvent(c, target) ==
  IF ~options.trackInputChanges THEN c
  ELSE IF ~target.present THEN c
  ELSE
    LET elementValue == inputElementValue(target)
        elementId    == OrElse(target.id, "")
        currentValue == inputCurrentValue(target)
        currentTime  == now
        eventType    == classifyInput(c.lastInputValues, c.lastInputTimes, target,
                                      currentTime)
        behaviorEvent ==
          createBehaviorEvent(eventType, target, elementValue, now, NoAdditionalData)
        c1 == onEventCreated(c, behaviorEvent)
    IN IF storageFull THEN c1    \* onEventCreated threw: the history is not updated
       ELSE [c1 EXCEPT !.lastInputValues = MapSet(c.lastInputValues, elementId, currentValue),
                       !.lastInputTimes  = MapSet(c.lastInputTimes, elementId, currentTime)]

handleFocusBlurEvent(c, type, target) ==
  IF ~options.trackFocusBlur THEN c
  ELSE IF ~target.present THEN c
  ELSE IF ~isFormElement(target) THEN c
  ELSE onEventCreated(c, createBehaviorEvent(type, target, getElementValue(target),
                                            now, NoAdditionalData))

(* TrackingUtils.throttle(func, delay): whether the returned function,     *)
(* whose previous accepted call was at lastCall, calls func at clock.      *)
throttle(lastCall, clock, delay) == clock - lastCall >= delay

(* handleMouseEvent builds a new throttled function on every call, so its  *)
(* lastCall is the initial 0.  No listener of the tracker calls it.        *)
handleMouseEvent(c, type, target) ==
  IF ~target.present THEN c
  ELSE IF ~isFormElement(target) THEN c
  ELSE IF ~shouldTrackEvent(type, options) THEN c
  ELSE IF throttle(0, now, options.throttleDelay)
       THEN onEventCreated(c, createBehaviorEvent(type, target, getElementValue(target),
                                                 now, NoAdditionalData))
       ELSE c

handleClickEvent(c, target) ==
  IF ~options.trackClicks THEN c
  ELSE IF ~target.present THEN c
  ELSE IF ~isFormElement(target) THEN c
  ELSE onEventCreated(c, createBehaviorEvent("click", target, getElementValue(target),
                                            now, NoAdditionalData))

handleMouseMovementEvent(c, type, target) ==
  IF ~options.trackMouseMovements THEN c
  ELSE IF ~target.present THEN c
  ELSE IF ~isFormElement(target) THEN c
  ELSE onEventCreated(c, createBehaviorEvent(type, target, getElementValue(target),
                                            now, NoAdditionalData))

(* clipboard: None when the event carries no clipboardData, else           *)
(* Some([types, data])                                                     *)
handleClipboardEvent(c, type, target, clipboard) ==
  IF ~options.trackCopyPaste THEN c
  ELSE IF ~target.present THEN c
  ELSE IF ~isFormElement(target) THEN c
  ELSE onEventCreated(c,
         createBehaviorEvent(type, target, getElementValue(target), now,
                             [NoAdditionalData EXCEPT !.clipboardData = clipboard]))

handleSelectChange(c, target) ==
  IF ~target.present THEN c
  ELSE onEventCreated(c, createBehaviorEvent("select-change", target, target.value,
                                            now, NoAdditionalData))

handleCheckboxRadioChange(c, target) ==
  IF ~target.present THEN Throw(c)
  ELSE onEventCreated(c, createBehaviorEvent("checkbox-radio-change", target,
                                            BoolText(target.checked), now,
                                            NoAdditionalData))

(* For a form, value is the JSON text of its FormData. *)
handleFormSubmit(c, target) ==
  IF ~target.present THEN Throw(c)
  ELSE onEventCreated(c, createBehaviorEvent("form-submit", target, target.value,
                                            now, NoAdditionalData))

handleFormValidation(c, target) ==
  IF ~target.present THEN Throw(c)
  ELSE onEventCreated(c, createBehaviorEvent("invalid", target, getElementValue(target),
                                            now, NoAdditionalData))

handleFormReset(c, target) ==
  IF ~target.present THEN Throw(c)
  ELSE onEventCreated(c, createBehaviorEvent("reset", target, getElementValue(target),
                                            now, NoAdditionalData))

----------------------------------------------------------------------------
(* The listeners one call of setupEventListeners attaches to document, as  *)
(* the effect of one DOM event e = [type, target, clipboard] on a cell.    *)
(* Which listeners exist depends on the options; the change and submit     *)
(* listeners read target.tagName themselves.                               *)

ClipboardTypes == {"copy", "paste", "cut"}
DomTypes ==
  {"input", "focus", "blur", "click", "mouseover", "mouseout", "change",
   "submit", "invalid", "reset"} \cup ClipboardTypes

listenerSet(c, e) ==
  CASE e.type = "input" ->
         IF options.trackInputChanges THEN handleInputEvent(c, e.target) ELSE c
    [] e.type \in {"focus", "blur"} ->
         IF options.trackFocusBlur THEN handleFocusBlurEvent(c, e.type, e.target) ELSE c
    [] e.type = "click" ->
         IF options.trackClicks THEN handleClickEvent(c, e.target) ELSE c
    [] e.type \in {"mouseover", "mouseout"} ->
         IF options.trackMouseMovements
         THEN handleMouseMovementEvent(c, e.type, e.target) ELSE c
    [] e.type = "change" ->
         IF ~e.target.present THEN Throw(c)
         ELSE IF toLowerCase(e.target.tagName) = "select"
              THEN handleSelectChange(c, e.target)
         ELSE IF e.target.tagName = "INPUT" /\ e.target.inputType \in {"checkbox", "radio"}
              THEN handleCheckboxRadioChange(c, e.target)
         ELSE c
    [] e.type = "submit" ->
         IF ~e.target.present THEN Throw(c)
         ELSE IF toLowerCase(e.target.tagName) = "form"
              THEN handleFormSubmit(c, e.target)
         ELSE c
    [] e.type = "invalid" -> handleFormValidation(c, e.target)
    [] e.type = "reset" -> handleFormReset(c, e.target)
    [] e.type \in ClipboardTypes ->
         IF options.trackCopyPaste
         THEN handleClipboardEvent(c, e.type, e.target, e.clipboard) ELSE c
    [] OTHER -> c

(* removeEventListeners() has an empty body: it detaches nothing. *)
removeEventListeners(attached) == attached

(* setupEventListeners(): "remove" the existing listeners, attach a set. *)
setupEventListeners(attached) == removeEventListeners(attached) + 1

(* setupPageUnloadHandler(): one more beforeunload listener. *)
setupPageUnloadHandler(attached) == attached + 1

(* A removePageUnloadHandler that detaches the listener (variant, C24). *)
removePageUnloadHandler_Detaches(attached) == IF attached > 0 THEN attached - 1 ELSE 0

(* removePageUnloadHandler() passes removeEventListener a function made by *)
(* a new bind(), which is no listener of window: nothing is removed.       *)
removePageUnloadHandler(attached) == attached

(* The DOM calls every attached listener set, in order of attachment. *)
RECURSIVE dispatchEvent(_, _, _)
dispatchEvent(attached, c, e) ==
  IF attached = 0 THEN c
  ELSE listenerSet(dispatchEvent(attached - 1, c, e), e)

----------------------------------------------------------------------------
(* Lifecycle (BehaviorTracker), on the record s of the tracker's fields.   *)

Tracker ==
  [events |-> events, startTime |-> startTime, isTracking |-> isTracking,
   sessionId |-> sessionId, storage |-> storage, nonce |-> nonce,
   listeners |-> listeners, unloadListeners |-> unloadListeners,
   lastInputValues |-> lastInputValues, lastInputTimes |-> lastInputTimes]

SessionFields(s) ==
  [events |-> s.events, startTime |-> s.startTime, sessionId |-> s.sessionId,
   storage |-> s.storage, nonce |-> s.nonce]

WithSession(s, f) ==
  [s EXCEPT !.events = f.events, !.startTime = f.startTime,
            !.sessionId = f.sessionId, !.storage = f.storage, !.nonce = f.nonce]

(* A startTracking without the isTracking check (variant, C7). *)
startTracking_Unguarded(s, reset, clock) ==
  LET s1 == IF reset THEN WithSession(s, clearSession(SessionFields(s), clock))
            ELSE s
  IN [s1 EXCEPT !.isTracking = TRUE,
                !.startTime = clock,
                !.listeners = setupEventListeners(s1.listeners),
                !.unloadListeners = setupPageUnloadHandler(s1.unloadListeners)]

(* A startTracking that does not restart the elapsed-time origin (variant, *)
(* C8).                                                                    *)
startTracking_KeepStartTime(s, reset, clock) ==
  IF s.isTracking THEN s
  ELSE LET s1 == IF reset THEN WithSession(s, clearSession(SessionFields(s), clock))
                 ELSE s
       IN [s1 EXCEPT !.isTracking = TRUE,
                     !.listeners = setupEventListeners(s1.listeners),
                     !.unloadListeners = setupPageUnloadHandler(s1.unloadListeners)]

startTracking(s, reset, clock) ==
  IF s.isTracking THEN s
  ELSE LET s1 == IF reset THEN WithSession(s, clearSession(SessionFields(s), clock))
                 ELSE s
       IN [s1 EXCEPT !.isTracking = TRUE,
                     !.startTime = clock,
                     !.listeners = setupEventListeners(s1.listeners),
                     !.unloadListeners = setupPageUnloadHandler(s1.unloadListeners)]

(* A stopTracking without the isTracking check (variant, C9). *)
stopTracking_Unguarded(s) ==
  [s EXCEPT !.isTracking = FALSE,
            !.listeners = removeEventListeners(s.listeners),
            !.unloadListeners = removePageUnloadHandler(s.unloadListeners),
            !.storage = saveSessionData([sessionId |-> s.sessionId,
                                         events |-> s.events]),
            !.lastInputValues = EmptyMap,
            !.lastInputTimes = EmptyMap]

stopTracking(s) ==
  IF ~s.isTracking THEN s
  ELSE [s EXCEPT !.isTracking = FALSE,
                 !.listeners = removeEventListeners(s.listeners),
                 !.unloadListeners = removePageUnloadHandler(s.unloadListeners),
                 !.storage = saveSessionData([sessionId |-> s.sessionId,
                                              events |-> s.events]),
                 !.lastInputValues = EmptyMap,
                 !.lastInputTimes = EmptyMap]

handlePageUnload(s) ==
  [s EXCEPT !.storage = saveSessionData([sessionId |-> s.sessionId,
                                         events |-> s.events])]

(* A createCustomEvent whose event carries no capture time (variant, C25). *)
createCustomEvent_Undated(eventName, customData, target, clock) ==
  LET eventTarget == IF target.present THEN target ELSE DocumentBody
      behaviorEvent ==
        createBehaviorEvent("custom", eventTarget, JSONText(customData), 0,
                            [clipboardData   |-> None,
                             customEventName |-> Some(eventName),
                             customData      |-> Some(customData)])
  IN [behaviorEvent EXCEPT !.type = eventName]

(* A createCustomEvent that does not tag the event with its name (variant, *)
(* C18).                                                                   *)
createCustomEvent_Untagged(eventName, customData, target, clock) ==
  LET eventTarget == IF target.present THEN target ELSE DocumentBody
      behaviorEvent ==
        createBehaviorEvent("custom", eventTarget, JSONText(customData), clock,
                            [clipboardData   |-> None,
                             customEventName |-> None,
                             customData      |-> Some(customData)])
  IN [behaviorEvent EXCEPT !.type = eventName]

(* createCustomEvent: the event a custom-event call builds *)
createCustomEvent(eventName, customData, target, clock) ==
  LET eventTarget == IF target.present THEN target ELSE DocumentBody
      behaviorEvent ==
        createBehaviorEvent("custom", eventTarget, JSONText(customData), clock,
                            [clipboardData   |-> None,
                             customEventName |-> Some(eventName),
                             customData      |-> Some(customData)])
  IN [behaviorEvent EXCEPT !.type = eventName]

----------------------------------------------------------------------------
(* Metrics, suspicious patterns and the risk score (BehaviorTracker).      *)
(* Scores are in hundredths: 30 is 0.3.                                    *)

Truthy(optionalName) == optionalName # None /\ optionalName[1] # ""

CountType(evs, types) == Cardinality({i \in 1..Len(evs) : evs[i].type \in types})

SwitchCases ==
  {"focus", "blur", "input", "change", "delete", "mouseover", "mouseout",
   "copy", "paste", "cut", "custom"}

(* the default arm of the switch on event.type *)
IsDefaultCustom(e) == e.type \notin SwitchCases /\ Truthy(e.customEventName)

(* A getMetrics that also counts every event carrying a customEventName   *)
(* as a custom event (variant, C31).                                       *)
getMetrics_CustomByName(evs, clock, start) ==
  [timeSpent         |-> clock - start,
   fieldInteractions |-> CountType(evs, {"focus", "blur", "input", "change", "delete"}),
   fieldChanges      |-> CountType(evs, {"input", "change", "delete"}),
   focusCount        |-> CountType(evs, {"focus"}),
   blurCount         |-> CountType(evs, {"blur"}),
   mouseInteractions |-> CountType(evs, {"mouseover", "mouseout"}),
   copyCount         |-> CountType(evs, {"copy"}),
   pasteCount        |-> CountType(evs, {"paste"}),
   cutCount          |-> CountType(evs, {"cut"}),
   deleteCount       |-> CountType(evs, {"delete"}),
   customEventCount  |->
     CountType(evs, {"custom"})
     + Cardinality({i \in 1..Len(evs) : Truthy(evs[i].customEventName)})]

(* A getMetrics that counts interactions of the last five seconds only     *)
(* (variant, C14).                                                         *)
getMetrics_RecentInteractions(evs, clock, start) ==
  LET Recent(e) == clock - e.timestamp <= 5000 IN
  [timeSpent         |-> clock - start,
   fieldInteractions |-> CountType(SelectSeq(evs, Recent),
                                   {"focus", "blur", "input", "change", "delete"}),
   fieldChanges      |-> CountType(evs, {"input", "change", "delete"}),
   focusCount        |-> CountType(evs, {"focus"}),
   blurCount         |-> CountType(evs, {"blur"}),
   mouseInteractions |-> CountType(evs, {"mouseover", "mouseout"}),
   copyCount         |-> CountType(evs, {"copy"}),
   pasteCount        |-> CountType(evs, {"paste"}),
   cutCount          |-> CountType(evs, {"cut"}),
   deleteCount       |-> CountType(evs, {"delete"}),
   customEventCount  |->
     CountType(evs, {"custom"})
     + Cardinality({i \in 1..Len(evs) : IsDefaultCustom(evs[i])})]

(* A getMetrics whose input, change and delete arms do not count an        *)
(* interaction (variant, C13).                                             *)
getMetrics_ChangesNotInteractions(evs, clock, start) ==
  [timeSpent         |-> clock - start,
   fieldInteractions |-> CountType(evs, {"focus", "blur"}),
   fieldChanges      |-> CountType(evs, {"input", "change", "delete"}),
   focusCount        |-> CountType(evs, {"focus"}),
   blurCount         |-> CountType(evs, {"blur"}),
   mouseInteractions |-> CountType(evs, {"mouseover", "mouseout"}),
   copyCount         |-> CountType(evs, {"copy"}),
   pasteCount        |-> CountType(evs, {"paste"}),
   cutCount          |-> CountType(evs, {"cut"}),
   deleteCount       |-> CountType(evs, {"delete"}),
   customEventCount  |->
     CountType(evs, {"custom"})
     + Cardinality({i \in 1..Len(evs) : IsDefaultCustom(evs[i])})]

getMetrics(evs, clock, start) ==
  [timeSpent         |-> clock - start,
   fieldInteractions |-> CountType(evs, {"focus", "blur", "input", "change", "delete"}),
   fieldChanges      |-> CountType(evs, {"input", "change", "delete"}),
   focusCount        |-> CountType(evs, {"focus"}),
   blurCount         |-> CountType(evs, {"blur"}),
   mouseInteractions |-> CountType(evs, {"mouseover", "mouseout"}),
   copyCount         |-> CountType(evs, {"copy"}),
   pasteCount        |-> CountType(evs, {"paste"}),
   cutCount          |-> CountType(evs, {"cut"}),
   deleteCount       |-> CountType(evs, {"delete"}),
   customEventCount  |->
     CountType(evs, {"custom"})
     + Cardinality({i \in 1..Len(evs) : IsDefaultCustom(evs[i])})]

(* A getEvents that reloads the log from the stored snapshot (variant,     *)
(* C23).                                                                   *)
getEvents_Reloaded(s) == loadSessionData(s.storage, s.events)

(* getEvents() of the tracker with fields s: the elements of this.events *)
getEvents(s) == s.events

(* CustomEventHandler.getCustomEventsByName(eventName) *)
getCustomEventsByName(custom, eventName) ==
  LET Named(e) == e.customEventName = Some(eventName) IN SelectSeq(custom, Named)

IsFieldInteraction(e) == e.type \in {"focus", "input", "delete", "change"}

(* getFieldInteractionOrder(): the element ids of the field interactions,  *)
(* each at its first occurrence.                                           *)
getFieldInteractionOrder(evs) ==
  LET f == SelectSeq(evs, IsFieldInteraction)
      order[n \in 0..Len(f)] ==
        IF n = 0 THEN <<>>
        ELSE IF \E j \in 1..(n - 1) : f[j].elementId = f[n].elementId
             THEN order[n - 1]
             ELSE Append(order[n - 1], f[n].elementId)
  IN order[Len(f)]

(* CustomEventHandler.getCustomEventsStats(): occurrences per name *)
getCustomEventsStats(custom) ==
  LET named == {i \in 1..Len(custom) : Truthy(custom[i].customEventName)} IN
    [name \in {custom[i].customEventName[1] : i \in named} |->
       Cardinality({i \in named : custom[i].customEventName[1] = name})]

IsClipboardEvent(e) == e.type \in ClipboardTypes
IsInputEvent(e) == e.type = "input"

RapidPairGap == 2000
BurstWindow == 5000
BurstMinCount == 3

(* A sub-detector whose burst window ends at the last clipboard event of   *)
(* the log (variant, C34).                                                 *)
detectRapidCopyPasteSequence_FromLogEnd(evs, clock) ==
  LET copyPasteEvents == SelectSeq(evs, IsClipboardEvent)
      last == IF Len(copyPasteEvents) = 0 THEN clock
              ELSE copyPasteEvents[Len(copyPasteEvents)].timestamp
      inWindow == {i \in 1..Len(copyPasteEvents) :
                     last - copyPasteEvents[i].timestamp <= BurstWindow}
  IN \/ \E i \in 2..Len(copyPasteEvents) :
          copyPasteEvents[i].timestamp - copyPasteEvents[i - 1].timestamp < RapidPairGap
     \/ Cardinality(inWindow) >= BurstMinCount

detectRapidCopyPasteSequence(evs, clock) ==
  LET copyPasteEvents == SelectSeq(evs, IsClipboardEvent)
      inWindow == {i \in 1..Len(copyPasteEvents) :
                     clock - copyPasteEvents[i].timestamp <= BurstWindow}
  IN \/ \E i \in 2..Len(copyPasteEvents) :
          copyPasteEvents[i].timestamp - copyPasteEvents[i - 1].timestamp < RapidPairGap
     \/ Cardinality(inWindow) >= BurstMinCount

RapidFillTime == 5000
RapidFillChanges == 5
FocusChurnCount == 20
FocusChurnTime == 10000
ExcessiveClipboardOps == 10
RapidInputGap == 50
RapidInputPairs == 3

Label(text, count) == [label |-> text, count |-> count]

(* A detector of rapid form filling that uses the configured minTimeSpent  *)
(* as its time limit (variant, C32).                                       *)
detectSuspiciousPatterns_MinTimeSpent(evs, clock, start) ==
  LET metrics == getMetrics(evs, clock, start)
      copyPasteEvents == SelectSeq(evs, IsClipboardEvent)
      copyCount  == CountType(copyPasteEvents, {"copy"})
      pasteCount == CountType(copyPasteEvents, {"paste"})
      inputEvents == SelectSeq(evs, IsInputEvent)
      rapidInputs == {i \in 2..Len(inputEvents) :
                        inputEvents[i].timestamp - inputEvents[i - 1].timestamp < RapidInputGap}
      When(cond, text, count) == IF cond THEN <<Label(text, count)>> ELSE <<>>
  IN When(metrics.timeSpent < options.minTimeSpent /\ metrics.fieldChanges > RapidFillChanges,
          "Rapid form filling detected", 0)
     \o When(metrics.focusCount > FocusChurnCount /\ metrics.timeSpent < FocusChurnTime,
             "Unusual focus pattern detected", 0)
     \o (IF Len(copyPasteEvents) > 0
         THEN <<Label("copy-paste operations detected", Len(copyPasteEvents))>>
              \o When(copyCount > 0 /\ pasteCount = 0,
                      "Copy operations without paste detected (potential data harvesting)", 0)
              \o When(Len(copyPasteEvents) > ExcessiveClipboardOps,
                      "Excessive copy-paste operations detected", 0)
              \o When(detectRapidCopyPasteSequence(evs, clock),
                      "Rapid copy-paste sequence detected (potential automation)", 0)
         ELSE <<>>)
     \o When(Cardinality(rapidInputs) > RapidInputPairs /\ Len(copyPasteEvents) = 0,
             "Possible copy-paste behavior detected (rapid input)", 0)

(* A detector that reports copies without paste when the copies outnumber  *)
(* the pastes (variant, C33).                                              *)
detectSuspiciousPatterns_UnmatchedCopy(evs, clock, start) ==
  LET metrics == getMetrics(evs, clock, start)
      copyPasteEvents == SelectSeq(evs, IsClipboardEvent)
      copyCount  == CountType(copyPasteEvents, {"copy"})
      pasteCount == CountType(copyPasteEvents, {"paste"})
      inputEvents == SelectSeq(evs, IsInputEvent)
      rapidInputs == {i \in 2..Len(inputEvents) :
                        inputEvents[i].timestamp - inputEvents[i - 1].timestamp < RapidInputGap}
      When(cond, text, count) == IF cond THEN <<Label(text, count)>> ELSE <<>>
  IN When(metrics.timeSpent < RapidFillTime /\ metrics.fieldChanges > RapidFillChanges,
          "Rapid form filling detected", 0)
     \o When(metrics.focusCount > FocusChurnCount /\ metrics.timeSpent < FocusChurnTime,
             "Unusual focus pattern detected", 0)
     \o (IF Len(copyPasteEvents) > 0
         THEN <<Label("copy-paste operations detected", Len(copyPasteEvents))>>
              \o When(copyCount > pasteCount,
                      "Copy operations without paste detected (potential data harvesting)", 0)
              \o When(Len(copyPasteEvents) > ExcessiveClipboardOps,
                      "Excessive copy-paste operations detected", 0)
              \o When(detectRapidCopyPasteSequence(evs, clock),
                      "Rapid copy-paste sequence detected (potential automation)", 0)
         ELSE <<>>)
     \o When(Cardinality(rapidInputs) > RapidInputPairs /\ Len(copyPasteEvents) = 0,
             "Possible copy-paste behavior detected (rapid input)", 0)

(* A detector whose rapid-input fallback ignores the clipboard events of   *)
(* the log (variant, C35).                                                 *)
detectSuspiciousPatterns_FallbackAlways(evs, clock, start) ==
  LET metrics == getMetrics(evs, clock, start)
      copyPasteEvents == SelectSeq(evs, IsClipboardEvent)
      copyCount  == CountType(copyPasteEvents, {"copy"})
      pasteCount == CountType(copyPasteEvents, {"paste"})
      inputEvents == SelectSeq(evs, IsInputEvent)
      rapidInputs == {i \in 2..Len(inputEvents) :
                        inputEvents[i].timestamp - inputEvents[i - 1].timestamp < RapidInputGap}
      When(cond, text, count) == IF cond THEN <<Label(text, count)>> ELSE <<>>
  IN When(metrics.timeSpent < RapidFillTime /\ metrics.fieldChanges > RapidFillChanges,
          "Rapid form filling detected", 0)
     \o When(metrics.focusCount > FocusChurnCount /\ metrics.timeSpent < FocusChurnTime,
             "Unusual focus pattern detected", 0)
     \o (IF Len(copyPasteEvents) > 0
         THEN <<Label("copy-paste operations detected", Len(copyPasteEvents))>>
              \o When(copyCount > 0 /\ pasteCount = 0,
                      "Copy operations without paste detected (potential data harvesting)", 0)
              \o When(Len(copyPasteEvents) > ExcessiveClipboardOps,
                      "Excessive copy-paste operations detected", 0)
              \o When(detectRapidCopyPasteSequence(evs, clock),
                      "Rapid copy-paste sequence detected (potential automation)", 0)
         ELSE <<>>)
     \o When(Cardinality(rapidInputs) > RapidInputPairs,
             "Possible copy-paste behavior detected (rapid input)", 0)

detectSuspiciousPatterns(evs, clock, start) ==
  LET metrics == getMetrics(evs, clock, start)
      copyPasteEvents == SelectSeq(evs, IsClipboardEvent)
      copyCount  == CountType(copyPasteEvents, {"copy"})
      pasteCount == CountType(copyPasteEvents, {"paste"})
      inputEvents == SelectSeq(evs, IsInputEvent)
      rapidInputs == {i \in 2..Len(inputEvents) :
                        inputEvents[i].timestamp - inputEvents[i - 1].timestamp < RapidInputGap}
      When(cond, text, count) == IF cond THEN <<Label(text, count)>> ELSE <<>>
  IN When(metrics.timeSpent < RapidFillTime /\ metrics.fieldChanges > RapidFillChanges,
          "Rapid form filling detected", 0)
     \o When(metrics.focusCount > FocusChurnCount /\ metrics.timeSpent < FocusChurnTime,
             "Unusual focus pattern detected", 0)
     \o (IF Len(copyPasteEvents) > 0
         THEN <<Label("copy-paste operations detected", Len(copyPasteEvents))>>
              \o When(copyCount > 0 /\ pasteCount = 0,
                      "Copy operations without paste detected (potential data harvesting)", 0)
              \o When(Len(copyPasteEvents) > ExcessiveClipboardOps,
                      "Excessive copy-paste operations detected", 0)
              \o When(detectRapidCopyPasteSequence(evs, clock),
                      "Rapid copy-paste sequence detected (potential automation)", 0)
         ELSE <<>>)
     \o When(Cardinality(rapidInputs) > RapidInputPairs /\ Len(copyPasteEvents) = 0,
             "Possible copy-paste behavior detected (rapid input)", 0)

Min(a, b) == IF a < b THEN a ELSE b

MaxScore == 100

(* A risk sum whose clipboard-ratio tiers add up (variant, C29). *)
riskSum_CumulativeTiers(metrics, suspiciousPatterns, evs, clock, opts) ==
  LET totalCopyPasteOps == metrics.copyCount + metrics.pasteCount + metrics.cutCount
      totalFieldInteractions ==
        IF metrics.fieldInteractions # 0 THEN metrics.fieldInteractions ELSE 1
      \* fieldChanges / fieldInteractions > 0.8; 0/0 is NaN, x/0 is Infinity
      changeRatioHigh ==
        IF metrics.fieldInteractions = 0 THEN metrics.fieldChanges > 0
        ELSE 10 * metrics.fieldChanges > 8 * metrics.fieldInteractions
  IN (IF metrics.timeSpent < opts.minTimeSpent THEN 30 ELSE 0)
     + (IF metrics.timeSpent > opts.maxTimeSpent THEN 20 ELSE 0)
     + (IF changeRatioHigh THEN 20 ELSE 0)
     + (IF metrics.mouseInteractions < 5 THEN 10 ELSE 0)
     + (IF 10 * totalCopyPasteOps > 5 * totalFieldInteractions THEN 25 ELSE 0)
     + (IF 10 * totalCopyPasteOps > 3 * totalFieldInteractions THEN 15 ELSE 0)
     + (IF 10 * totalCopyPasteOps > totalFieldInteractions THEN 5 ELSE 0)
     + (IF totalCopyPasteOps > 10 THEN 20
        ELSE IF totalCopyPasteOps > 5 THEN 10
        ELSE 0)
     + (IF metrics.copyCount > 0 /\ metrics.pasteCount = 0 THEN 15 ELSE 0)
     + (IF detectRapidCopyPasteSequence(evs, clock) THEN 20 ELSE 0)
     + Len(suspiciousPatterns) * 10

(* A risk sum that skips the clipboard ratio when no field was interacted  *)
(* with (variant, C30).                                                    *)
riskSum_RatioNeedsInteractions(metrics, suspiciousPatterns, evs, clock, opts) ==
  LET totalCopyPasteOps == metrics.copyCount + metrics.pasteCount + metrics.cutCount
      totalFieldInteractions ==
        IF metrics.fieldInteractions # 0 THEN metrics.fieldInteractions ELSE 1
      \* fieldChanges / fieldInteractions > 0.8; 0/0 is NaN, x/0 is Infinity
      changeRatioHigh ==
        IF metrics.fieldInteractions = 0 THEN metrics.fieldChanges > 0
        ELSE 10 * metrics.fieldChanges > 8 * metrics.fieldInteractions
  IN (IF metrics.timeSpent < opts.minTimeSpent THEN 30 ELSE 0)
     + (IF metrics.timeSpent > opts.maxTimeSpent THEN 20 ELSE 0)
     + (IF changeRatioHigh THEN 20 ELSE 0)
     + (IF metrics.mouseInteractions < 5 THEN 10 ELSE 0)
     + (IF metrics.fieldInteractions = 0 THEN 0
        ELSE IF 10 * totalCopyPasteOps > 5 * totalFieldInteractions THEN 25
        ELSE IF 10 * totalCopyPasteOps > 3 * totalFieldInteractions THEN 15
        ELSE IF 10 * totalCopyPasteOps > totalFieldInteractions THEN 5
        ELSE 0)
     + (IF totalCopyPasteOps > 10 THEN 20
        ELSE IF totalCopyPasteOps > 5 THEN 10
        ELSE 0)
     + (IF metrics.copyCount > 0 /\ metrics.pasteCount = 0 THEN 15 ELSE 0)
     + (IF detectRapidCopyPasteSequence(evs, clock) THEN 20 ELSE 0)
     + Len(suspiciousPatterns) * 10

(* The unclamped sum of the contributions. *)
riskSum(metrics, suspiciousPatterns, evs, clock, opts) ==
  LET totalCopyPasteOps == metrics.copyCount + metrics.pasteCount + metrics.cutCount
      totalFieldInteractions ==
        IF metrics.fieldInteractions # 0 THEN metrics.fieldInteractions ELSE 1
      \* fieldChanges / fieldInteractions > 0.8; 0/0 is NaN, x/0 is Infinity
      changeRatioHigh ==
        IF metrics.fieldInteractions = 0 THEN metrics.fieldChanges > 0
        ELSE 10 * metrics.fieldChanges > 8 * metrics.fieldInteractions
  IN (IF metrics.timeSpent < opts.minTimeSpent THEN 30 ELSE 0)
     + (IF metrics.timeSpent > opts.maxTimeSpent THEN 20 ELSE 0)
     + (IF changeRatioHigh THEN 20 ELSE 0)
     + (IF metrics.mouseInteractions < 5 THEN 10 ELSE 0)
     + (IF 10 * totalCopyPasteOps > 5 * totalFieldInteractions THEN 25
        ELSE IF 10 * totalCopyPasteOps > 3 * totalFieldInteractions THEN 15
        ELSE IF 10 * totalCopyPasteOps > totalFieldInteractions THEN 5
        ELSE 0)
     + (IF totalCopyPasteOps > 10 THEN 20
        ELSE IF totalCopyPasteOps > 5 THEN 10
        ELSE 0)
     + (IF metrics.copyCount > 0 /\ metrics.pasteCount = 0 THEN 15 ELSE 0)
     + (IF detectRapidCopyPasteSequence(evs, clock) THEN 20 ELSE 0)
     + Len(suspiciousPatterns) * 10

(* A calculateRiskScore without the final Math.min (variant, C1). *)
calculateRiskScore_Unclamped(metrics, suspiciousPatterns, evs, clock, opts) ==
  riskSum(metrics, suspiciousPatterns, evs, clock, opts)

calculateRiskScore(metrics, suspiciousPatterns, evs, clock, opts) ==
  Min(riskSum(metrics, suspiciousPatterns, evs, clock, opts), MaxScore)

(* getInsights().averageTimePerField, in whole milliseconds *)
averageTimePerField(metrics) ==
  metrics.timeSpent \div (IF metrics.fieldInteractions # 0
                          THEN metrics.fieldInteractions ELSE 1)

(* getInsights().riskScore in the current state *)
riskScore ==
  calculateRiskScore(getMetrics(events, now, startTime),
                     detectSuspiciousPatterns(events, now, startTime),
                     events, now, options)

----------------------------------------------------------------------------
(* The inputs of the model: the DOM interactions the page delivers and the *)
(* custom events the application submits.                                  *)

ClipboardPayload == Some([types |-> <<"text/plain">>, data |-> "a"])

Interaction(type, target, clipboard) ==
  [type |-> type, target |-> target, clipboard |-> clipboard]

Interactions ==
  { Interaction("input", EmailInput("a"), None),
    Interaction("input", EmailInput("alice@example.com"), None),
    Interaction("copy", EmailInput("a"), ClipboardPayload),
    Interaction("click", PlainDiv, None) }

CustomNames == {"conversion"}
CustomPayloads == { << <<"value", "150">> >> }
CustomTargets == {NoTarget}

----------------------------------------------------------------------------
(* The state machine. *)

Op(op, arg) ==
  [op |-> op, arg |-> arg, accepted |-> FALSE, raised |-> FALSE,
   wasTracking |-> isTracking]

Install(s) ==
  /\ events' = s.events
  /\ startTime' = s.startTime
  /\ isTracking' = s.isTracking
  /\ sessionId' = s.sessionId
  /\ storage' = s.storage
  /\ nonce' = s.nonce
  /\ listeners' = s.listeners
  /\ unloadListeners' = s.unloadListeners
  /\ lastInputValues' = s.lastInputValues
  /\ lastInputTimes' = s.lastInputTimes

(* A page of a new tab constructs the tracker, with one of the given       *)
(* configurations, on empty storage.                                       *)
InitWith(choices) ==
  /\ options \in choices
  /\ now = Epoch
  /\ LET t == Construct(None, Epoch, 0) IN
       /\ events = t.events
       /\ sessionId = t.sessionId
       /\ storage = t.storage
       /\ nonce = t.nonce
  /\ startTime = 0
  /\ isTracking = FALSE
  /\ listeners = 0
  /\ unloadListeners = 0
  /\ lastInputValues = EmptyMap
  /\ lastInputTimes = EmptyMap
  /\ customEvents = <<>>
  /\ storageFull = FALSE
  /\ others = <<>>
  /\ lastOp = [op |-> "construct", arg |-> "", accepted |-> FALSE, raised |-> FALSE,
               wasTracking |-> FALSE]

Init == InitWith(OptionChoices)

StartTracking ==
  \E reset \in BOOLEAN :
    /\ ~isTracking => listeners < MaxStarts
    /\ (~isTracking /\ reset) => nonce < MaxIds
    /\ Install(startTracking(Tracker, reset, now))
    /\ lastOp' = Op("startTracking", IF reset THEN "reset" ELSE "keep")
    /\ UNCHANGED <<customEvents, options, storageFull, others, now>>

StopTracking ==
  /\ Install(stopTracking(Tracker))
  /\ lastOp' = Op("stopTracking", "")
  /\ UNCHANGED <<customEvents, options, storageFull, others, now>>

ClearSession ==
  /\ nonce < MaxIds
  /\ Install(WithSession(Tracker, clearSession(SessionFields(Tracker), now)))
  /\ lastOp' = Op("clearSession", "")
  /\ UNCHANGED <<customEvents, options, storageFull, others, now>>

(* One DOM interaction e: the DOM calls every listener set attached. *)
Deliver(e) ==
    /\ LET c0 == [events |-> events, storage |-> storage,
                  lastInputValues |-> lastInputValues,
                  lastInputTimes |-> lastInputTimes, raised |-> FALSE]
           c1 == dispatchEvent(listeners, c0, e)
       IN /\ events' = c1.events
          /\ storage' = c1.storage
          /\ lastInputValues' = c1.lastInputValues
          /\ lastInputTimes' = c1.lastInputTimes
          /\ lastOp' = [op |-> "dom", arg |-> e.type,
                        accepted |-> Len(listenerSet(c0, e).events) > Len(events),
                        raised |-> c1.raised, wasTracking |-> isTracking]
    /\ UNCHANGED <<startTime, isTracking, sessionId, nonce, listeners,
                   unloadListeners, customEvents, options, storageFull, others, now>>

Dispatch ==
  \E e \in Interactions :
    /\ Len(events) + listeners <= MaxEvents
    /\ Deliver(e)

(* trackCustomEvent(name, data, target) *)
TrackCustomEventCall(name, data, target) ==
    /\ LET behaviorEvent == createCustomEvent(name, data, target, now)
           c0 == [events |-> events, storage |-> storage,
                  lastInputValues |-> lastInputValues,
                  lastInputTimes |-> lastInputTimes, raised |-> FALSE]
           c1 == onEventCreated(c0, behaviorEvent)
       IN /\ customEvents' = Append(customEvents, behaviorEvent)
          /\ events' = c1.events
          /\ storage' = c1.storage
    /\ lastOp' = [Op("trackCustomEvent", name) EXCEPT !.raised = storageFull]
    /\ UNCHANGED <<startTime, isTracking, sessionId, nonce, listeners,
                   unloadListeners, lastInputValues, lastInputTimes, options, storageFull, others,
                   now>>

TrackCustomEvent ==
  \E name \in CustomNames, data \in CustomPayloads, target \in CustomTargets :
    /\ Len(events) < MaxEvents
    /\ Len(customEvents) < MaxEvents
    /\ TrackCustomEventCall(name, data, target)

(* A clearCustomEvents that also removes the custom events from the log    *)
(* and from the stored snapshot (variant, C36).                            *)
ClearCustomEvents_AlsoLog ==
  /\ customEvents' = <<>>
  /\ LET NotCustom(e) == ~Truthy(e.customEventName)
         kept == SelectSeq(events, NotCustom)
     IN /\ events' = kept
        /\ storage' = saveSessionData([sessionId |-> sessionId, events |-> kept])
  /\ lastOp' = Op("clearCustomEvents", "")
  /\ UNCHANGED <<startTime, isTracking, sessionId, nonce,
                 listeners, unloadListeners, lastInputValues, lastInputTimes,
                 options, storageFull, others, now>>

ClearCustomEvents ==
  /\ customEvents' = <<>>
  /\ lastOp' = Op("clearCustomEvents", "")
  /\ UNCHANGED <<events, startTime, isTracking, sessionId, storage, nonce,
                 listeners, unloadListeners, lastInputValues, lastInputTimes,
                 options, storageFull, others, now>>

(* getMetrics(), getInsights(), getEvents(), getSessionId(): reads. *)
ReadAccessors ==
  /\ lastOp' = Op("read", "")
  /\ UNCHANGED <<events, startTime, isTracking, sessionId, storage, nonce,
                 listeners, unloadListeners, lastInputValues, lastInputTimes,
                 customEvents, options, storageFull, others, now>>

(* In-tab navigation: beforeunload reaches the listeners of window, the    *)
(* page and its tracker are dropped, and the next page constructs a        *)
(* tracker with the same options on the tab's storage.                     *)
Navigate ==
  /\ LET unloaded == IF unloadListeners > 0 THEN handlePageUnload(Tracker) ELSE Tracker
         t == Construct(unloaded.storage, now, nonce)
     IN /\ events' = t.events
        /\ sessionId' = t.sessionId
        /\ storage' = t.storage
        /\ nonce' = t.nonce
  /\ startTime' = 0
  /\ isTracking' = FALSE
  /\ listeners' = 0
  /\ unloadListeners' = 0
  /\ lastInputValues' = EmptyMap
  /\ lastInputTimes' = EmptyMap
  /\ customEvents' = <<>>
  /\ others' = <<>>
  /\ lastOp' = Op("construct", "navigate")
  /\ UNCHANGED <<options, storageFull, now>>

(* Time passes; the clock never goes backwards. *)
Tick ==
  \E t \in ClockReadings :
    /\ t > now
    /\ now' = t
    /\ lastOp' = Op("tick", "")
    /\ UNCHANGED <<events, startTime, isTracking, sessionId, storage, nonce,
                   listeners, unloadListeners, lastInputValues, lastInputTimes,
                   customEvents, options, storageFull, others>>

Next ==
  \/ StartTracking
  \/ StopTracking
  \/ ClearSession
  \/ Dispatch
  \/ TrackCustomEvent
  \/ ClearCustomEvents
  \/ ReadAccessors
  \/ Navigate
  \/ Tick

Spec == Init /\ [][Next]_vars

----------------------------------------------------------------------------
(* A page with one tracker, started once, that receives every kind of DOM  *)
(* event the tracker listens to, on form controls, on an element that is   *)
(* no form control and with no target, and custom events whose names       *)
(* include a built-in event type.                                          *)

MaxPageEvents == 2

PageClockReadings == {Epoch, Epoch + 6000}

PageInteractions ==
  { Interaction("input", EmailInput("a"), None),
    Interaction("input", PlainDiv, None),
    Interaction("focus", EmailInput("a"), None),
    Interaction("click", EmailInput("a"), None),
    Interaction("click", PlainDiv, None),
    Interaction("copy", EmailInput("a"), ClipboardPayload),
    Interaction("change", SelectEl, None),
    Interaction("submit", FormEl, None),
    Interaction("invalid", PlainDiv, None),
    Interaction("reset", FormEl, None),
    Interaction("reset", PlainDiv, None),
    Interaction("click", NoTarget, None),
    Interaction("change", NoTarget, None),
    Interaction("invalid", NoTarget, None) }

PageCustomNames == {"conversion", "focus"}
PageCustomPayloads == { << <<"value", "150">> >> }
PageCustomTargets == {NoTarget, EmailInput("a")}

PageStart ==
  /\ ~isTracking
  /\ listeners = 0
  /\ Install(startTracking(Tracker, FALSE, now))
  /\ lastOp' = Op("startTracking", "keep")
  /\ UNCHANGED <<customEvents, options, storageFull, others, now>>

PageDispatch ==
  \E e \in PageInteractions :
    /\ Len(events) < MaxPageEvents
    /\ Deliver(e)

PageCustom ==
  \E name \in PageCustomNames, data \in PageCustomPayloads,
     target \in PageCustomTargets :
    /\ Len(events) < MaxPageEvents
    /\ TrackCustomEventCall(name, data, target)

PageTick ==
  \E t \in PageClockReadings :
    /\ t > now
    /\ now' = t
    /\ lastOp' = Op("tick", "")
    /\ UNCHANGED <<events, startTime, isTracking, sessionId, storage, nonce,
                   listeners, unloadListeners, lastInputValues, lastInputTimes,
                   customEvents, options, storageFull, others>>

PageNext ==
  \/ PageStart
  \/ PageDispatch
  \/ PageCustom
  \/ ClearCustomEvents
  \/ ReadAccessors
  \/ PageTick

PageSpec == Init /\ [][PageNext]_vars

----------------------------------------------------------------------------
(* A page whose tracker is constructed with one feature toggle changed     *)
(* from its default, and that receives each kind of DOM event on a form    *)
(* control.                                                                *)

MaxToggleEvents == 2

ToggleChoices ==
  { DefaultOptions,
    [DefaultOptions EXCEPT !.trackInputChanges = FALSE],
    [DefaultOptions EXCEPT !.trackFocusBlur = FALSE],
    [DefaultOptions EXCEPT !.trackClicks = FALSE],
    [DefaultOptions EXCEPT !.trackCopyPaste = FALSE],
    [DefaultOptions EXCEPT !.trackMouseMovements = TRUE] }

ToggleInteractions ==
  { Interaction("input", EmailInput("a"), None),
    Interaction("focus", EmailInput("a"), None),
    Interaction("blur", EmailInput("a"), None),
    Interaction("click", EmailInput("a"), None),
    Interaction("mouseover", EmailInput("a"), None),
    Interaction("mouseout", EmailInput("a"), None),
    Interaction("copy", EmailInput("a"), ClipboardPayload),
    Interaction("paste", EmailInput("a"), ClipboardPayload),
    Interaction("cut", EmailInput("a"), ClipboardPayload),
    Interaction("change", SelectEl, None),
    Interaction("change", CheckboxEl, None) }

ToggleInit == InitWith(ToggleChoices)

ToggleDispatch ==
  \E e \in ToggleInteractions :
    /\ Len(events) < MaxToggleEvents
    /\ Deliver(e)

ToggleNext ==
  \/ PageStart
  \/ ToggleDispatch
  \/ PageTick

ToggleSpec == ToggleInit /\ [][ToggleNext]_vars

----------------------------------------------------------------------------
(* A page whose code writes to what the tracker returned.  getEvents()     *)
(* returns [...this.events]: a new array holding the same event objects as *)
(* the log, and trackCustomEvent returns the object it pushed to the log   *)
(* and to the custom-event list.  A write to the returned array stays in   *)
(* that array; a write to a property of a returned event is a write to the *)
(* object the log holds.  Without clearCustomEvents and clearSession the   *)
(* k-th custom event of the log is the object at customEvents[k].          *)

MaxCallerEvents == 2

CallerInteractions ==
  { Interaction("input", EmailInput("a"), None),
    Interaction("focus", EmailInput("a"), None) }

(* The number of custom events among the first i events of the log. *)
customIndex(evs, i) ==
  Cardinality({j \in 1..i : evs[j].customEventName # None})

(* event.type = text, on the event object at position i of the log *)
writeEventType(s, i, text) ==
  [events |-> [s.events EXCEPT ![i].type = text],
   customEvents |->
     IF s.events[i].customEventName # None
     THEN [s.customEvents EXCEPT ![customIndex(s.events, i)].type = text]
     ELSE s.customEvents]

CallerDispatch ==
  \E e \in CallerInteractions :
    /\ Len(events) < MaxCallerEvents
    /\ Deliver(e)

CallerCustom ==
  \E name \in CustomNames, data \in CustomPayloads, target \in CustomTargets :
    /\ Len(events) < MaxCallerEvents
    /\ TrackCustomEventCall(name, data, target)

(* const copy = tracker.getEvents(); copy.pop(), copy.push(x), copy[i] = x *)
CallerWritesArray ==
  /\ events # <<>>
  /\ lastOp' = Op("callerWrite", "array")
  /\ UNCHANGED <<events, startTime, isTracking, sessionId, storage, nonce,
                 listeners, unloadListeners, lastInputValues, lastInputTimes,
                 customEvents, options, storageFull, others, now>>

(* tracker.getEvents()[i].type = 'tampered', or the same write to the      *)
(* event trackCustomEvent returned                                         *)
CallerWritesEvent ==
  \E i \in 1..Len(events) :
    /\ events[i].type # "tampered"
    /\ LET w == writeEventType([events |-> events, customEvents |-> customEvents],
                               i, "tampered")
       IN /\ events' = w.events
          /\ customEvents' = w.customEvents
    /\ lastOp' = Op("callerWrite", "event")
    /\ UNCHANGED <<startTime, isTracking, sessionId, storage, nonce, listeners,
                   unloadListeners, lastInputValues, lastInputTimes, options, storageFull, others,
                   now>>

(* The window fires beforeunload: every listener attached to it runs.  The *)
(* page may stay (the user cancels leaving it).                            *)
BeforeUnload ==
  /\ Install(IF unloadListeners > 0 THEN handlePageUnload(Tracker) ELSE Tracker)
  /\ lastOp' = Op("beforeunload", "")
  /\ UNCHANGED <<customEvents, options, storageFull, others, now>>

CallerNext ==
  \/ PageStart
  \/ StopTracking
  \/ BeforeUnload
  \/ CallerDispatch
  \/ CallerCustom
  \/ CallerWritesArray
  \/ CallerWritesEvent
  \/ ReadAccessors
  \/ PageTick

CallerSpec == Init /\ [][CallerNext]_vars

----------------------------------------------------------------------------
(* A page whose sessionStorage runs out of room: other code of the origin  *)
(* fills the quota, or frees it again, between two interactions.  While    *)
(* the storage is full, setItem throws QuotaExceededError.  The tracker is *)
(* started without reset, which writes nothing.                            *)

StorageFills ==
  /\ storageFull' = ~storageFull
  /\ lastOp' = Op("storage", IF storageFull THEN "room" ELSE "full")
  /\ UNCHANGED <<events, startTime, isTracking, sessionId, storage, nonce,
                 listeners, unloadListeners, lastInputValues, lastInputTimes,
                 customEvents, options, others, now>>

QuotaNext ==
  \/ PageStart
  \/ PageDispatch
  \/ PageCustom
  \/ StorageFills
  \/ PageTick

QuotaSpec == Init /\ [][QuotaNext]_vars

----------------------------------------------------------------------------
(* A page with a second BehaviorTracker instance.  Every instance has its  *)
(* own fields and handlers; STORAGE_KEY is static, so all instances read   *)
(* and write the one stored item.  others[1] holds the in-memory fields of *)
(* the second instance, which the application constructs at some point and *)
(* then uses through trackCustomEvent and clearSession; it is not started, *)
(* so the DOM calls the listeners of the first instance only.              *)

TwinConstruct ==
  /\ others = <<>>
  /\ LET t == Construct(storage, now, nonce) IN
       /\ others' = <<[events |-> t.events, sessionId |-> t.sessionId,
                       startTime |-> 0, customEvents |-> <<>>]>>
       /\ storage' = t.storage
       /\ nonce' = t.nonce
  /\ lastOp' = Op("other", "construct")
  /\ UNCHANGED <<events, startTime, isTracking, sessionId, listeners,
                 unloadListeners, lastInputValues, lastInputTimes,
                 customEvents, options, storageFull, now>>

(* trackCustomEvent and clearSession called on the second instance *)
TwinCall ==
  /\ others # <<>>
  /\ \/ \E name \in CustomNames, data \in CustomPayloads, target \in CustomTargets :
          LET behaviorEvent == createCustomEvent(name, data, target, now)
              pushed == Append(others[1].events, behaviorEvent)
          IN /\ Len(others[1].events) < MaxCallerEvents
             /\ others' = <<[others[1] EXCEPT
                               !.events = pushed,
                               !.customEvents = Append(@, behaviorEvent)]>>
             /\ storage' = saveSessionData([sessionId |-> others[1].sessionId,
                                            events |-> pushed])
             /\ nonce' = nonce
             /\ lastOp' = Op("other", "trackCustomEvent")
     \/ LET f == clearSession([events |-> others[1].events,
                               startTime |-> others[1].startTime,
                               sessionId |-> others[1].sessionId,
                               storage |-> storage, nonce |-> nonce], now)
        IN /\ nonce <= MaxIds
           /\ others' = <<[others[1] EXCEPT !.events = f.events,
                                            !.startTime = f.startTime,
                                            !.sessionId = f.sessionId]>>
           /\ storage' = f.storage
           /\ nonce' = f.nonce
           /\ lastOp' = Op("other", "clearSession")
  /\ UNCHANGED <<events, startTime, isTracking, sessionId, listeners,
                 unloadListeners, lastInputValues, lastInputTimes,
                 customEvents, options, storageFull, now>>

TwinNext ==
  \/ PageStart
  \/ StopTracking
  \/ ClearSession
  \/ CallerDispatch
  \/ CallerCustom
  \/ TwinConstruct
  \/ TwinCall

TwinSpec == Init /\ [][TwinNext]_vars

----------------------------------------------------------------------------
(* A page where the user types.  The tracker is started once; input events *)
(* arrive on <input id="email" name="email">, on <input name="q"> and on a *)
(* <textarea>, the last two without id, with the value the element holds   *)
(* at that moment, 80 ms or more apart.                                    *)

MaxTypingEvents == 2

TypingInteractions ==
  { Interaction("input", EmailInput(v), None) :
      v \in {"a", "ab", "a123", "alice@example.com"} }
  \cup { Interaction("input", Element("", "INPUT", "", "q", "text", v, FALSE), None) :
           v \in {"a", "ab", "a1", "a123456"} }
  \cup { Interaction("input", Element("", "TEXTAREA", "", "", "", "a", FALSE), None) }

TypingDispatch ==
  \E e \in TypingInteractions :
    /\ Len(events) < MaxTypingEvents
    /\ Deliver(e)

TypingTick ==
  \E t \in {Epoch + 80, Epoch + 200} :
    /\ t > now
    /\ now' = t
    /\ lastOp' = Op("tick", "")
    /\ UNCHANGED <<events, startTime, isTracking, sessionId, storage, nonce,
                   listeners, unloadListeners, lastInputValues, lastInputTimes,
                   customEvents, options, storageFull, others>>

TypingNext ==
  \/ PageStart
  \/ TypingDispatch
  \/ TypingTick

TypingSpec == Init /\ [][TypingNext]_vars

----------------------------------------------------------------------------
(* A page that opens in a tab whose storage holds the snapshot of an       *)
(* earlier page: the constructor restores that log.  The earlier page      *)
(* logged some copy, paste, focus, input and mouseover events on the email *)
(* field, either all at once or three seconds apart, well before this page *)
(* loaded.  This page starts the tracker or not, and reads the insights.   *)

MaxCopies == 11

ScoreInit ==
  /\ options = DefaultOptions
  /\ now = Epoch
  /\ \E copies \in {0, 1, 6, MaxCopies}, pastes \in {0, 1}, focuses \in {0, 1, 12},
        inputs \in {0, 6}, moves \in {0, 5}, gap \in {0, 3000} :
       LET typeAt(i) ==
             IF i <= copies THEN "copy"
             ELSE IF i <= copies + pastes THEN "paste"
             ELSE IF i <= copies + pastes + focuses THEN "focus"
             ELSE IF i <= copies + pastes + focuses + inputs THEN "input"
             ELSE "mouseover"
           restored ==
             [i \in 1..(copies + pastes + focuses + inputs + moves) |->
                createBehaviorEvent(typeAt(i), EmailInput("a"), "a",
                                    Epoch - 100000 + gap * i, NoAdditionalData)]
           t == Construct(saveSessionData([sessionId |-> [ts |-> Epoch - 200000, rnd |-> 0],
                                           events |-> restored]),
                          Epoch, 1)
       IN /\ events = t.events
          /\ sessionId = t.sessionId
          /\ storage = t.storage
          /\ nonce = t.nonce
  /\ startTime = 0
  /\ isTracking = FALSE
  /\ listeners = 0
  /\ unloadListeners = 0
  /\ lastInputValues = EmptyMap
  /\ lastInputTimes = EmptyMap
  /\ customEvents = <<>>
  /\ storageFull = FALSE
  /\ others = <<>>
  /\ lastOp = [op |-> "construct", arg |-> "restore", accepted |-> FALSE,
               raised |-> FALSE, wasTracking |-> FALSE]

ScoreNext ==
  \/ PageStart
  \/ ReadAccessors
  \/ PageTick

ScoreSpec == ScoreInit /\ [][ScoreNext]_vars

----------------------------------------------------------------------------
(* A page that resumes a stored session.  The snapshot in the tab's        *)
(* storage was written by an earlier page of the session, a second or less *)
(* before this page loaded, and holds one of: up to two events of any      *)
(* counted kind (custom events included, one of them named like a built-in *)
(* type); a run of 4 to MaxTyped input events 40 ms or 60 ms apart; such a *)
(* run followed by a copy.  The tracker is constructed with the default    *)
(* thresholds or with minTimeSpent lowered to one second.  This page       *)
(* starts the tracker, receives up to MaxFillEvents input events on the    *)
(* email field, and reads the metrics while time passes.                   *)

MaxTyped == 6
MaxFillEvents == 1

FillInit ==
  /\ options \in {DefaultOptions, [DefaultOptions EXCEPT !.minTimeSpent = 1000]}
  /\ now = Epoch
  /\ LET dom(type, offset) ==
           createBehaviorEvent(type, EmailInput("a"), "a", Epoch + offset,
                               NoAdditionalData)
         custom(name, offset) ==
           createCustomEvent(name, << <<"value", "150">> >>, EmailInput("a"),
                             Epoch + offset)
         Run(type, n, first, gap) ==
           [i \in 1..n |-> dom(type, first + gap * (i - 1))]
         single ==
           {dom(type, -1000) : type \in {"focus", "blur", "change", "delete", "mouseover"}}
           \cup {custom(name, -1000) : name \in {"focus", "conversion"}}
         mixed ==
           {<<>>} \cup {<<a>> : a \in single} \cup {<<a, b>> : a \in single, b \in single}
         typed ==
           {Run("input", n, -1000, gap) : n \in 4..MaxTyped, gap \in {40, 60}}
         typedThenCopy ==
           {Run("input", 5, -1000, 40) \o <<dom("copy", -500)>>}
     IN \E restored \in mixed \cup typed \cup typedThenCopy :
          LET t == Construct(saveSessionData([sessionId |-> [ts |-> Epoch - 2000, rnd |-> 0],
                                              events |-> restored]),
                             Epoch, 1)
          IN /\ events = t.events
             /\ sessionId = t.sessionId
             /\ storage = t.storage
             /\ nonce = t.nonce
  /\ startTime = 0
  /\ isTracking = FALSE
  /\ listeners = 0
  /\ unloadListeners = 0
  /\ lastInputValues = EmptyMap
  /\ lastInputTimes = EmptyMap
  /\ customEvents = <<>>
  /\ storageFull = FALSE
  /\ others = <<>>
  /\ lastOp = [op |-> "construct", arg |-> "restore", accepted |-> FALSE,
               raised |-> FALSE, wasTracking |-> FALSE]

FillNext ==
  \/ PageStart
  \/ /\ Cardinality({i \in 1..Len(events) : events[i].timestamp >= Epoch}) < MaxFillEvents
     /\ Deliver(Interaction("input", EmailInput("a"), None))
  \/ ReadAccessors
  \/ \E t \in {Epoch + 2500, Epoch + 5000, Epoch + 7500} :
       /\ t > now
       /\ now' = t
       /\ lastOp' = Op("tick", "")
       /\ UNCHANGED <<events, startTime, isTracking, sessionId, storage, nonce,
                      listeners, unloadListeners, lastInputValues, lastInputTimes,
                      customEvents, options, storageFull, others>>

FillSpec == FillInit /\ [][FillNext]_vars

----------------------------------------------------------------------------
(* A page whose user copies and pastes in the email field, at once or      *)
(* 2.5 s apart, up to MaxClipboardEvents times; the tracker is started,    *)
(* stopped and cleared, and the tab navigates to the next page of the      *)
(* session.                                                                *)

MaxClipboardEvents == 3

ClipboardNext ==
  \/ PageStart
  \/ StopTracking
  \/ ClearSession
  \/ Navigate
  \/ \E type \in {"copy", "paste"} :
       /\ Len(events) < MaxClipboardEvents
       /\ Deliver(Interaction(type, EmailInput("a"), ClipboardPayload))
  \/ ReadAccessors
  \/ \E t \in {Epoch + 2500, Epoch + 5000, Epoch + 7500} :
       /\ t > now
       /\ now' = t
       /\ lastOp' = Op("tick", "")
       /\ UNCHANGED <<events, startTime, isTracking, sessionId, storage, nonce,
                      listeners, unloadListeners, lastInputValues, lastInputTimes,
                      customEvents, options, storageFull, others>>

ClipboardSpec == Init /\ [][ClipboardNext]_vars

----------------------------------------------------------------------------
(* Properties. *)

IsPrefix(a, b) == Len(a) <= Len(b) /\ SubSeq(b, 1, Len(a)) = a

DomStep == lastOp'.op = "dom"

(* C1: in every reachable state the risk score getInsights() returns is at *)
(* least 0 and at most 1 (100 hundredths).                                 *)
C1_RiskScoreInUnitInterval == riskScore >= 0 /\ riskScore <= MaxScore

(* C1 witness: a state whose contributions add up to more than 1. *)
C1_Witness ==
  riskSum(getMetrics(events, now, startTime),
          detectSuspiciousPatterns(events, now, startTime),
          events, now, options) > MaxScore

(* C2 (as claimed): while the tracker is Idle, a DOM interaction appends   *)
(* no event to the log.                                                    *)
C2_NoCaptureWhileIdle == [][(DomStep /\ ~isTracking) => events' = events]_vars

(* C3 (as claimed): while Tracking, a DOM interaction that passes the      *)
(* filters appends exactly one event, whatever start/stop cycles came      *)
(* before.                                                                 *)
C3_ExactlyOneEventPerInteraction ==
  [][(DomStep /\ isTracking /\ lastOp'.accepted)
       => Len(events') = Len(events) + 1]_vars

(* C4: stopTracking() leaves the log as it is, and a tracker constructed   *)
(* right after it on the same storage holds that same log.                 *)
C4_RoundTrip ==
  [][/\ lastOp'.op = "stopTracking" => events' = events
     /\ (lastOp.op = "stopTracking" /\ lastOp'.op = "construct") => events' = events]_vars

(* C4 witness: a tracker reconstructed while Idle whose log holds a DOM    *)
(* event with clipboard data and one without.                              *)
C4_Witness ==
  /\ lastOp.op = "construct" /\ lastOp.arg = "navigate" /\ ~lastOp.wasTracking
  /\ \E i, j \in 1..Len(events) :
       events[i].clipboardData # None /\ events[j].type = "input"

(* C5: clearSession() leaves the log empty and the session id different    *)
(* from what it was.                                                       *)
C5_ClearSessionResets ==
  [][lastOp'.op = "clearSession" => (events' = <<>> /\ sessionId' # sessionId)]_vars

(* C5 witness: clearSession() was called while Tracking, after custom      *)
(* events had been logged.                                                 *)
C5_Witness ==
  lastOp.op = "clearSession" /\ lastOp.wasTracking /\ customEvents # <<>>

(* What a tracker just constructed on empty storage shows: an empty log,   *)
(* an empty custom-event list, and every input classified as a first one.  *)
LikeFreshTracker ==
  /\ events = <<>>
  /\ customEvents = <<>>
  /\ \A e \in Interactions :
       e.type = "input" =>
         classifyInput(lastInputValues, lastInputTimes, e.target, now)
           = classifyInput(EmptyMap, EmptyMap, e.target, now)

(* C6 (as claimed): after clearSession() every observable is that of a     *)
(* freshly constructed tracker.                                            *)
C6_ClearSessionLikeFresh == lastOp.op = "clearSession" => LikeFreshTracker

(* C7: startTracking(reset) while Tracking changes nothing, for both       *)
(* values of reset.                                                        *)
C7_StartWhileTrackingNoOp ==
  [][(lastOp'.op = "startTracking" /\ isTracking)
       => UNCHANGED <<events, sessionId, startTime, storage, listeners,
                      unloadListeners, isTracking>>]_vars

(* C7 witness: startTracking(true) was called while Tracking, with a       *)
(* non-empty log.                                                          *)
C7_Witness ==
  /\ lastOp.op = "startTracking" /\ lastOp.arg = "reset" /\ lastOp.wasTracking
  /\ events # <<>>

(* C8: from Idle, startTracking(false) keeps log and session id,           *)
(* startTracking(true) empties the log and replaces the session id; both   *)
(* end Tracking with the start time at the current time.                   *)
C8_StartFromIdle ==
  [][(lastOp'.op = "startTracking" /\ ~isTracking)
       => /\ isTracking'
          /\ startTime' = now
          /\ lastOp'.arg = "keep" => (events' = events /\ sessionId' = sessionId)
          /\ lastOp'.arg = "reset" => (events' = <<>> /\ sessionId' # sessionId)]_vars

(* C8 witness: startTracking(true) from Idle after custom events had been  *)
(* logged.                                                                 *)
C8_Witness ==
  /\ lastOp.op = "startTracking" /\ lastOp.arg = "reset" /\ ~lastOp.wasTracking
  /\ isTracking /\ customEvents # <<>>

(* C9: stopTracking() while Idle changes neither the log, the session id,  *)
(* the persisted snapshot nor the input history.                           *)
C9_StopWhileIdleNoOp ==
  [][(lastOp'.op = "stopTracking" /\ ~isTracking)
       => UNCHANGED <<events, sessionId, storage, lastInputValues,
                      lastInputTimes>>]_vars

(* C9 witness: stopTracking() was called while Idle with a recorded input  *)
(* history.                                                                *)
C9_Witness ==
  lastOp.op = "stopTracking" /\ ~lastOp.wasTracking /\ lastInputValues # EmptyMap

(* C10: across every operation of a tracker other than clearSession() and  *)
(* startTracking(true), the log before is a prefix of the log after.       *)
C10_AppendOnly ==
  [][(/\ lastOp'.op \notin {"clearSession", "construct"}
      /\ ~(lastOp'.op = "startTracking" /\ lastOp'.arg = "reset"))
       => IsPrefix(events, events')]_vars

(* C10 witness: a DOM interaction appended to a log that already held an   *)
(* event.                                                                  *)
C10_Witness == lastOp.op = "dom" /\ lastOp.accepted /\ Len(events) >= 2 /\ listeners = 1

(* C11: in every state of one tracker, the snapshot stored under the       *)
(* storage key is the in-memory pair {sessionId, events}.                  *)
C11_SnapshotMatchesMemory ==
  /\ storage # None
  /\ JSONParse(storage[1]) = [sessionId |-> sessionId, events |-> events]

(* C11 witness: a DOM event was appended to a non-empty log and the stored *)
(* snapshot holds both events.                                             *)
C11_Witness ==
  /\ lastOp.op = "dom" /\ lastOp.accepted
  /\ storage # None /\ Len(JSONParse(storage[1]).events) >= 2

(* C12: the session id changes only in clearSession() and in               *)
(* startTracking(true) from Idle, and a tracker constructed while a        *)
(* snapshot is stored takes the stored session id.                         *)
C12_SessionIdStable ==
  [][/\ sessionId' # sessionId
          => \/ lastOp'.op = "clearSession"
             \/ (lastOp'.op = "startTracking" /\ lastOp'.arg = "reset" /\ ~isTracking)
     /\ (lastOp'.op = "construct" /\ storage # None)
          => sessionId' = JSONParse(storage[1]).sessionId]_vars

(* C12 witness: a tracker was constructed on a snapshot whose session id   *)
(* is not the first one generated in the tab.                              *)
C12_Witness ==
  lastOp.op = "construct" /\ lastOp.arg = "navigate" /\ sessionId.rnd > 0

(* getMetrics() in the current state *)
metrics == getMetrics(events, now, startTime)

(* C13: in every state, getMetrics().fieldInteractions is at least         *)
(* getMetrics().fieldChanges.                                              *)
C13_InteractionsAtLeastChanges == metrics.fieldInteractions >= metrics.fieldChanges

(* C13 witness: the log holds a change and an interaction that is no       *)
(* change.                                                                 *)
C13_Witness ==
  /\ metrics.fieldChanges >= 1
  /\ metrics.fieldInteractions > metrics.fieldChanges

(* The counts of getMetrics(): every field but the elapsed time. *)
Counts == [k \in (DOMAIN metrics) \ {"timeSpent"} |-> metrics[k]]

(* The fields of getInsights() that are not derived from the elapsed time. *)
InsightCounts ==
  [fieldInteractionOrder |-> getFieldInteractionOrder(events),
   customEventStats      |-> getCustomEventsStats(customEvents)]

(* C14: as long as no event is appended the counts of getMetrics() and of  *)
(* getInsights() stay the same, whatever time passes between two calls,    *)
(* and a call of a read accessor changes neither the log, the session id,  *)
(* the custom-event list nor the stored snapshot.                          *)
C14_ReadsIdempotent ==
  [][/\ events' = events => Counts' = Counts
     /\ (events' = events /\ customEvents' = customEvents)
          => InsightCounts' = InsightCounts
     /\ lastOp'.op = "read"
          => UNCHANGED <<events, sessionId, customEvents, storage>>]_vars

(* C14 witness: a read accessor was called on a non-empty log some time    *)
(* after the last event.                                                   *)
C14_Witness ==
  /\ lastOp.op = "read"
  /\ events # <<>>
  /\ now > events[Len(events)].timestamp

(* An event of the log that a mouse listener appended. *)
IsMouseOrigin(e) ==
  e.customEventName = None /\ e.type \in {"click", "mouseover", "mouseout"}

(* C15 (as claimed): two mouse-origin events of one handler stream (the    *)
(* click listener, or the mouseover/mouseout listeners) are never both in  *)
(* the log when they arrived less than throttleDelay milliseconds apart.   *)
C15_MouseEventsThrottled ==
  \A i, j \in 1..Len(events) :
    (/\ i < j
     /\ IsMouseOrigin(events[i]) /\ IsMouseOrigin(events[j])
     /\ (events[i].type = "click") = (events[j].type = "click"))
      => events[j].timestamp - events[i].timestamp >= options.throttleDelay

(* C16 (as claimed): a DOM interaction whose target is not form-capable    *)
(* appends nothing to the log, whatever its type.                          *)
C16_OnlyFormTargetsLogged ==
  [][\A e \in PageInteractions :
       (Deliver(e) /\ e.target.present /\ ~isFormElement(e.target))
         => events' = events]_vars

(* The feature toggle that governs a kind of DOM event: input and change   *)
(* events are governed by trackInputChanges, the clipboard events by       *)
(* trackCopyPaste.                                                         *)
ToggleOn(eventType) ==
  IF eventType \in ClipboardTypes THEN options.trackCopyPaste
  ELSE shouldTrackEvent(eventType, options)

(* C17 (as claimed): a DOM interaction whose feature toggle is off appends *)
(* nothing to the log.                                                     *)
C17_ToggleOffNoCapture ==
  [][\A e \in ToggleInteractions :
       (Deliver(e) /\ ~ToggleOn(e.type)) => events' = events]_vars

(* C17, the part that holds: a toggle that is off suppresses the event     *)
(* types whose listener is attached under it (input, focus, blur, click,   *)
(* mouseover, mouseout, copy, paste, cut).                                 *)
C17_OwnListenersGoverned ==
  [][\A e \in ToggleInteractions :
       (Deliver(e) /\ e.type # "change" /\ ~ToggleOn(e.type))
         => events' = events]_vars

(* C18: trackCustomEvent(name, data, target), in Idle and in Tracking and  *)
(* for any target, appends exactly one event, which carries the supplied   *)
(* customData and becomes the last element of getCustomEventsByName(name); *)
(* no step other than trackCustomEvent and clearCustomEvents changes what  *)
(* getCustomEventsByName returns, so n calls leave exactly their n events  *)
(* in call order.                                                          *)
C18_CustomEventsByName ==
  [][/\ \A name \in PageCustomNames, data \in PageCustomPayloads,
           target \in PageCustomTargets :
          TrackCustomEventCall(name, data, target)
            => /\ Len(events') = Len(events) + 1
               /\ SubSeq(events', 1, Len(events)) = events
               /\ events'[Len(events')].customData = Some(data)
               /\ getCustomEventsByName(customEvents', name)
                    = Append(getCustomEventsByName(customEvents, name),
                             events'[Len(events')])
               /\ \A other \in PageCustomNames \ {name} :
                    getCustomEventsByName(customEvents', other)
                      = getCustomEventsByName(customEvents, other)
     /\ lastOp'.op \notin {"trackCustomEvent", "clearCustomEvents"}
          => \A name \in PageCustomNames :
               getCustomEventsByName(customEvents', name)
                 = getCustomEventsByName(customEvents, name)]_vars

(* C18 witness: a second custom event of the same name was submitted while *)
(* the tracker was Idle, with an element as target.                        *)
C18_Witness ==
  /\ lastOp.op = "trackCustomEvent" /\ ~lastOp.wasTracking
  /\ Len(getCustomEventsByName(customEvents, lastOp.arg)) >= 2
  /\ customEvents[Len(customEvents)].elementId = "email"

IsCustomEvent(e) == e.customEventName # None
IsDomEvent(e) == e.customEventName = None

(* C19 (as claimed): customEventCount is the number of events of the log   *)
(* that carry a customEventName, whatever their name, and those events     *)
(* count in no other counter: the other counters are those of the log      *)
(* without its custom events.                                              *)
C19_CustomEventCount ==
  LET withoutCustom == getMetrics(SelectSeq(events, IsDomEvent), now, startTime) IN
    /\ metrics.customEventCount = Len(SelectSeq(events, IsCustomEvent))
    /\ \A k \in (DOMAIN metrics) \ {"customEventCount", "timeSpent"} :
         metrics[k] = withoutCustom[k]

(* The events of the stored snapshot. *)
storedEvents == IF storage = None THEN <<>> ELSE JSONParse(storage[1]).events

(* C20 (as claimed): a write the caller makes to what getEvents() or       *)
(* trackCustomEvent returned changes neither what getEvents() and          *)
(* getMetrics() return afterwards, nor ever reaches the stored snapshot.   *)
C20_DefensiveCopy ==
  [][/\ lastOp'.op = "callerWrite" => (events' = events /\ Counts' = Counts)
     /\ \A i \in 1..Len(storedEvents') : storedEvents'[i].type # "tampered"]_vars

(* C20, the part that holds: a write to the returned array itself changes  *)
(* nothing in the tracker.                                                 *)
C20_ArrayIsCopied ==
  [][(lastOp'.op = "callerWrite" /\ lastOp'.arg = "array")
       => UNCHANGED <<events, customEvents, storage>>]_vars


(* C21 (as claimed): a DOM event of a listened type whose target is null   *)
(* is dropped in silence: the listeners append nothing, change nothing of  *)
(* the tracker and throw nothing.                                          *)
C21_NoTargetDropped ==
  [][\A e \in PageInteractions :
       (Deliver(e) /\ ~e.target.present)
         => /\ UNCHANGED <<events, storage, lastInputValues, lastInputTimes,
                           customEvents, sessionId>>
            /\ ~lastOp'.raised]_vars

(* C21, the part that holds: such an event changes nothing of the tracker. *)
C21_NoTargetNoChange ==
  [][\A e \in PageInteractions :
       (Deliver(e) /\ ~e.target.present)
         => UNCHANGED <<events, storage, lastInputValues, lastInputTimes,
                        customEvents, sessionId>>]_vars


(* C22 (as claimed): when the storage write fails while an event is being  *)
(* appended, by a DOM listener or by trackCustomEvent, the append raises   *)
(* nothing to its caller and the event is in the in-memory log.            *)
C22_StorageFailureNotFatal ==
  [][(storageFull /\ lastOp'.op \in {"dom", "trackCustomEvent"}
        /\ (lastOp'.op = "dom" => (listeners = 1 /\ lastOp'.accepted)))
       => /\ Len(events') = Len(events) + 1
          /\ SubSeq(events', 1, Len(events)) = events
          /\ ~lastOp'.raised]_vars

(* C22, the part that holds: the event is in the in-memory log, and the    *)
(* stored snapshot is the one written before the failure.                  *)
C22_EventKeptInMemory ==
  [][(storageFull /\ lastOp'.op \in {"dom", "trackCustomEvent"}
        /\ (lastOp'.op = "dom" => (listeners = 1 /\ lastOp'.accepted)))
       => /\ Len(events') = Len(events) + 1
          /\ SubSeq(events', 1, Len(events)) = events
          /\ storage' = storage]_vars


(* C23: no operation on one tracker instance changes what the queries of   *)
(* the other instance of the page (getEvents, getSessionId, the custom     *)
(* events) return.                                                         *)
C23_InstancesIndependent ==
  [][LET Queries(inMemory, store) ==
           [getEvents |-> getEvents([events |-> inMemory.events, storage |-> store]),
            getSessionId |-> inMemory.sessionId,
            getCustomEvents |-> inMemory.customEvents]
         First == [events |-> events, sessionId |-> sessionId,
                   customEvents |-> customEvents]
     IN /\ (others # <<>> /\ lastOp'.op # "other")
             => Queries(others'[1], storage') = Queries(others[1], storage)
        /\ lastOp'.op = "other"
             => Queries(First', storage') = Queries(First, storage)]_vars

C23_Witness ==
  /\ others # <<>>
  /\ lastOp.op = "dom" /\ lastOp.accepted /\ listeners = 1
  /\ others[1].events # <<>>
  /\ others[1].events # events
  /\ others[1].sessionId # sessionId


(* C24: once startTracking() has been called, a beforeunload notification  *)
(* writes the tracker's current {sessionId, events} to the storage, while  *)
(* Tracking and after stopTracking() alike.  (In the pages of CallerSpec   *)
(* startTime is set by startTracking only.)                                *)
C24_UnloadWritesSnapshot ==
  [][(lastOp'.op = "beforeunload" /\ startTime # 0)
       => storage' = saveSessionData([sessionId |-> sessionId, events |-> events])]_vars

C24_Witness ==
  /\ lastOp.op = "beforeunload"
  /\ ~isTracking /\ startTime # 0
  /\ \E i \in 1..Len(storedEvents) : storedEvents[i].type = "tampered"


(* C25: the clock never going backwards, the timestamps of the events of   *)
(* the log are non-decreasing in log order, in logs restored from the      *)
(* storage and in logs that mix DOM events with custom events too.         *)
C25_TimestampsNonDecreasing ==
  \A i, j \in 1..Len(events) : i < j => events[i].timestamp <= events[j].timestamp

C25_Witness ==
  /\ lastOp.op = "construct" /\ lastOp.arg = "navigate"
  /\ Len(events) = 2
  /\ events[1].customEventName = None
  /\ events[2].customEventName # None
  /\ events[1].timestamp < events[2].timestamp


(* C26 (as claimed): the first input observed on an element is classified  *)
(* 'input', never 'delete' or 'autocomplete', whether or not the element   *)
(* has an id and whatever was typed in other elements before.  (An element *)
(* is told from another by its id and tag; in TypingSpec the history is    *)
(* never cleared.)                                                         *)
C26_FirstInputIsInput ==
  \A i \in 1..Len(events) :
    (\A j \in 1..(i - 1) : \/ events[j].elementId # events[i].elementId
                            \/ events[j].elementType # events[i].elementType)
      => events[i].type = "input"

(* C26, the part that holds: the first input on an element that has an id  *)
(* is classified 'input'.                                                  *)
C26_FirstInputWithIdIsInput ==
  \A i \in 1..Len(events) :
    (events[i].elementId # ""
       /\ \A j \in 1..(i - 1) : events[j].elementId # events[i].elementId)
      => events[i].type = "input"


(* C27: an input on an element with a recorded previous value appends one  *)
(* event whose type is 'delete' exactly when the current value is shorter  *)
(* than the previous one, else 'autocomplete' exactly when the heuristic   *)
(* fires, else 'input'; afterwards the recorded value and time of the      *)
(* element are the current ones.                                           *)
C27_InputClassification ==
  [][\A e \in TypingInteractions :
       (Deliver(e) /\ listeners = 1 /\ e.target.id \in DOMAIN lastInputValues)
         => LET current  == e.target.value
                previous == lastInputValues[e.target.id]
                fires    == isAutocompleteEvent(current, previous, now,
                                                lastInputTimes[e.target.id], e.target)
                logged   == events'[Len(events')]
            IN /\ Len(events') = Len(events) + 1
               /\ logged.type \in {"delete", "autocomplete", "input"}
               /\ logged.type = "delete" <=> Len(current) < Len(previous)
               /\ logged.type = "autocomplete"
                    <=> (Len(current) >= Len(previous) /\ fires)
               /\ lastInputValues'[e.target.id] = current
               /\ lastInputTimes'[e.target.id] = now]_vars

C27_Witness ==
  /\ lastOp.op = "dom" /\ lastOp.arg = "input" /\ lastOp.accepted
  /\ Len(events) = 2
  /\ events[1].elementId = "email" /\ events[1].value = "ab"
  /\ events[2].elementId = "email" /\ events[2].type = "delete"
  /\ lastInputValues["email"] = "a"
  /\ lastInputTimes["email"] = now

(* C28: for an input that does not shrink a non-empty previous value, the  *)
(* heuristic fires exactly when (a) more than 3 characters came in under   *)
(* 100 ms and the appended text holds whitespace or '@' or is longer than  *)
(* 5 characters, or (b) the element is an autocomplete field and more than *)
(* 2 characters came, or (c) the appended text matches the email, ZIP,     *)
(* phone or letters-and-spaces pattern.                                    *)
C28_AutocompleteHeuristic ==
  [][\A e \in TypingInteractions :
       (Deliver(e) /\ listeners = 1 /\ e.target.id \in DOMAIN lastInputValues
          /\ lastInputValues[e.target.id] # ""
          /\ Len(e.target.value) >= Len(lastInputValues[e.target.id]))
         => LET current  == e.target.value
                previous == lastInputValues[e.target.id]
                elapsed  == now - lastInputTimes[e.target.id]
                growth   == Len(current) - Len(previous)
                appended == SubSeq(current, Len(previous) + 1, Len(current))
                a == /\ growth > 3 /\ elapsed < 100
                     /\ \/ Includes(appended, " ")
                        \/ Includes(appended, "@")
                        \/ Len(appended) > 5
                b == isAutocompleteField(e.target) /\ growth > 2
                c == \/ MatchesEmail(appended) \/ MatchesZip(appended)
                     \/ MatchesPhone(appended) \/ MatchesName(appended)
            IN events'[Len(events')].type = "autocomplete" <=> (a \/ b \/ c)]_vars

(* 'a', then 80 ms later 'alice@example.com', on the element 'email' *)
C28_Witness ==
  /\ Len(events) = 2
  /\ events[1].elementId = "email" /\ events[1].value = "a"
  /\ events[2].elementId = "email" /\ events[2].value = "alice@example.com"
  /\ events[2].timestamp - events[1].timestamp = 80
  /\ events[2].type = "autocomplete"


(* C29: the risk score is min(1, sum) of the contributions of the table,   *)
(* in hundredths: 30 if timeSpent < minTimeSpent, 20 if timeSpent >        *)
(* maxTimeSpent, 20 if fieldChanges / fieldInteractions > 0.8, 10 if       *)
(* mouseInteractions < 5, one of 25, 15, 5, 0 for the clipboard ratio      *)
(* above 0.5, 0.3, 0.1, one of 20, 10, 0 for more than 10, 5 clipboard     *)
(* operations, 15 for copy without paste, 20 for a rapid copy-paste        *)
(* sequence, 10 for each reported suspicious pattern.                      *)
C29_RiskScoreTable ==
  LET operations   == metrics.copyCount + metrics.pasteCount + metrics.cutCount
      denominator  == IF metrics.fieldInteractions = 0 THEN 1
                      ELSE metrics.fieldInteractions
      ratioTier    == IF 10 * operations > 5 * denominator THEN 25
                      ELSE IF 10 * operations > 3 * denominator THEN 15
                      ELSE IF 10 * operations > 1 * denominator THEN 5
                      ELSE 0
      volumeTier   == IF operations > 10 THEN 20
                      ELSE IF operations > 5 THEN 10
                      ELSE 0
      contributions ==
        << IF metrics.timeSpent < options.minTimeSpent THEN 30 ELSE 0,
           IF metrics.timeSpent > options.maxTimeSpent THEN 20 ELSE 0,
           IF 10 * metrics.fieldChanges > 8 * denominator THEN 20 ELSE 0,
           IF metrics.mouseInteractions < 5 THEN 10 ELSE 0,
           ratioTier,
           volumeTier,
           IF metrics.copyCount > 0 /\ metrics.pasteCount = 0 THEN 15 ELSE 0,
           IF detectRapidCopyPasteSequence(events, now) THEN 20 ELSE 0,
           10 * Len(detectSuspiciousPatterns(events, now, startTime)) >>
      total[n \in 0..Len(contributions)] ==
        IF n = 0 THEN 0 ELSE total[n - 1] + contributions[n]
  IN riskScore = Min(100, total[Len(contributions)])

(* a score below the cap made of the middle ratio tier, the middle volume  *)
(* tier and more *)
C29_Witness ==
  /\ lastOp.op = "read"
  /\ riskScore < 100
  /\ metrics.copyCount + metrics.pasteCount > 5
  /\ 10 * (metrics.copyCount + metrics.pasteCount) <= 5 * metrics.fieldInteractions
  /\ 10 * (metrics.copyCount + metrics.pasteCount) > 3 * metrics.fieldInteractions

(* C30: when fieldInteractions is 0 the denominators count as 1 and        *)
(* nothing fails: the field-change ratio adds nothing, the clipboard ratio *)
(* is the number of clipboard operations, and getInsights() has a score    *)
(* and a finite averageTimePerField.                                       *)
C30_ZeroInteractions ==
  metrics.fieldInteractions = 0 =>
    LET operations == metrics.copyCount + metrics.pasteCount + metrics.cutCount
        patterns   == detectSuspiciousPatterns(events, now, startTime)
        expected ==
          (IF metrics.timeSpent < options.minTimeSpent THEN 30 ELSE 0)
          + (IF metrics.timeSpent > options.maxTimeSpent THEN 20 ELSE 0)
          + (IF metrics.mouseInteractions < 5 THEN 10 ELSE 0)
          + (IF 10 * operations > 5 THEN 25
             ELSE IF 10 * operations > 3 THEN 15
             ELSE IF 10 * operations > 1 THEN 5 ELSE 0)
          + (IF operations > 10 THEN 20 ELSE IF operations > 5 THEN 10 ELSE 0)
          + (IF metrics.copyCount > 0 /\ metrics.pasteCount = 0 THEN 15 ELSE 0)
          + (IF detectRapidCopyPasteSequence(events, now) THEN 20 ELSE 0)
          + 10 * Len(patterns)
    IN /\ riskScore = Min(100, expected)
       /\ riskScore \in 0..100
       /\ averageTimePerField(metrics) = metrics.timeSpent

C30_Witness ==
  /\ lastOp.op = "read"
  /\ metrics.fieldInteractions = 0
  /\ metrics.copyCount = 1 /\ metrics.pasteCount = 1
  /\ riskScore < 100

(* C31: for every log the counters of getMetrics() satisfy                 *)
(* fieldInteractions = focusCount + blurCount + fieldChanges and           *)
(* deleteCount <= fieldChanges, and every event of the log adds one to at  *)
(* most one of focusCount, blurCount, fieldChanges, mouseInteractions,     *)
(* copyCount, pasteCount, cutCount and customEventCount.                   *)
C31_CounterIdentities ==
  LET Exclusive(m) ==
        m.focusCount + m.blurCount + m.fieldChanges + m.mouseInteractions
        + m.copyCount + m.pasteCount + m.cutCount + m.customEventCount
  IN /\ metrics.fieldInteractions
          = metrics.focusCount + metrics.blurCount + metrics.fieldChanges
     /\ metrics.deleteCount <= metrics.fieldChanges
     /\ \A i \in 1..Len(events) :
          Exclusive(getMetrics(<<events[i]>>, now, startTime)) <= 1
     /\ Exclusive(metrics) <= Len(events)

(* C31 witness: the metrics are read on a log that holds a delete event    *)
(* and a custom event named 'focus'.                                       *)
C31_Witness ==
  /\ lastOp.op = "read"
  /\ metrics.deleteCount = 1
  /\ \E i \in 1..Len(events) :
       events[i].type = "focus" /\ Truthy(events[i].customEventName)
  /\ metrics.fieldInteractions = 2

(* C32: 'Rapid form filling detected' is reported if and only if, at the   *)
(* call, timeSpent < 5000 ms and fieldChanges > 5, whatever minTimeSpent   *)
(* is configured; so with six field changes in the log and at most 3000 ms *)
(* since the start the label is reported and adds 0.1 to the score, and    *)
(* from 5000 ms after the start on it is not reported.                     *)
C32_RapidFormFilling ==
  LET patterns == detectSuspiciousPatterns(events, now, startTime)
      IsRapidFill(p) == p.label = "Rapid form filling detected"
      IsOther(p) == ~IsRapidFill(p)
      reported == \E i \in 1..Len(patterns) : IsRapidFill(patterns[i])
  IN /\ reported <=> (now - startTime < 5000 /\ metrics.fieldChanges > 5)
     /\ (isTracking /\ now - startTime <= 3000 /\ metrics.fieldChanges >= 6) =>
          /\ reported
          /\ riskScore
               = Min(100, riskSum(metrics, SelectSeq(patterns, IsOther), events, now,
                                  options) + 10)
     /\ (isTracking /\ now - startTime >= 5000) => ~reported

(* C32 witness: minTimeSpent is one second, the sixth input event arrived  *)
(* on this page, and the insights are read 2.5 s after the start with the  *)
(* label among the patterns.                                               *)
C32_Witness ==
  /\ lastOp.op = "read"
  /\ isTracking
  /\ options.minTimeSpent = 1000
  /\ now - startTime = 2500
  /\ metrics.fieldChanges = 6
  /\ events[Len(events)].timestamp >= startTime
  /\ \E i \in 1..Len(detectSuspiciousPatterns(events, now, startTime)) :
       detectSuspiciousPatterns(events, now, startTime)[i].label
         = "Rapid form filling detected"

(* C33: 'Copy operations without paste detected' is reported if and only  *)
(* if the log holds at least one copy event and no paste event; and when a *)
(* copy was followed within 1000 ms by a paste, the tracker was stopped    *)
(* and the next page reconstructs the tracker from storage, getMetrics()   *)
(* of the new tracker has copyCount 1 and pasteCount 1 and the label is    *)
(* not reported.                                                           *)
C33_CopyWithoutPaste ==
  /\ [](LET patterns == detectSuspiciousPatterns(events, now, startTime) IN
          (\E i \in 1..Len(patterns) :
             patterns[i].label
               = "Copy operations without paste detected (potential data harvesting)")
          <=> (CountType(events, {"copy"}) >= 1 /\ CountType(events, {"paste"}) = 0))
  /\ [][ (/\ ~isTracking
          /\ Len(events) = 2
          /\ events[1].type = "copy" /\ events[2].type = "paste"
          /\ events[2].timestamp - events[1].timestamp <= 1000
          /\ lastOp'.op = "construct")
         => LET after == getMetrics(events', now', startTime')
                patterns == detectSuspiciousPatterns(events', now', startTime')
            IN /\ after.copyCount = 1
               /\ after.pasteCount = 1
               /\ \A i \in 1..Len(patterns) :
                    patterns[i].label
                      # "Copy operations without paste detected (potential data harvesting)"
       ]_vars

(* C33 witness: the tracker of the next page, reconstructed after a copy   *)
(* and a paste in the same millisecond and stopTracking().                 *)
C33_Witness ==
  /\ lastOp.op = "construct"
  /\ ~lastOp.wasTracking
  /\ Len(events) = 2
  /\ events[1].type = "copy" /\ events[2].type = "paste"
  /\ events[2].timestamp = events[1].timestamp
  /\ metrics.copyCount = 1 /\ metrics.pasteCount = 1

(* C34: the rapid copy-paste sub-detector is true if and only if two       *)
(* consecutive clipboard events of the log are less than 2000 ms apart or  *)
(* at least 3 clipboard events are at most 5000 ms older than the call; so *)
(* once the log holds a pair under 2000 ms the result is true at every     *)
(* later call as long as the log is not cleared, and a result that is true *)
(* by the burst rule alone is false once more than a second has passed     *)
(* without a new event.                                                    *)
C34_RapidSequence ==
  /\ [](LET IsClip(e) == e.type \in {"copy", "paste", "cut"}
            clip == SelectSeq(events, IsClip)
        IN detectRapidCopyPasteSequence(events, now)
           <=> \/ \E i \in 2..Len(clip) : clip[i].timestamp - clip[i - 1].timestamp < 2000
               \/ Cardinality({i \in 1..Len(clip) : now - clip[i].timestamp <= 5000}) >= 3)
  /\ [][LET IsClip(e) == e.type \in {"copy", "paste", "cut"}
            clip == SelectSeq(events, IsClip)
            pair == \E i \in 2..Len(clip) : clip[i].timestamp - clip[i - 1].timestamp < 2000
        IN /\ (pair /\ IsPrefix(events, events'))
                => detectRapidCopyPasteSequence(events', now')
           /\ (/\ detectRapidCopyPasteSequence(events, now)
               /\ ~pair
               /\ events' = events
               /\ now' > now + 1000)
                => ~detectRapidCopyPasteSequence(events', now')
       ]_vars

(* C34 witness: a read that finds the sub-detector true by the burst rule  *)
(* alone: three clipboard events 2.5 s apart, the first 5 s ago.           *)
C34_Witness ==
  /\ lastOp.op = "read"
  /\ Len(events) = 3
  /\ \A i \in 2..3 : events[i].timestamp - events[i - 1].timestamp = 2500
  /\ now - events[1].timestamp = 5000
  /\ detectRapidCopyPasteSequence(events, now)

(* C35: 'Possible copy-paste behavior detected (rapid input)' is reported  *)
(* if and only if the log holds no copy, paste or cut event and more than  *)
(* 3 adjacent pairs of events of type 'input' are less than 50 ms apart;   *)
(* it is never reported together with 'N copy-paste operations detected'.  *)
C35_RapidInputFallback ==
  LET patterns == detectSuspiciousPatterns(events, now, startTime)
      Reported(text) == \E i \in 1..Len(patterns) : patterns[i].label = text
      IsInput(e) == e.type = "input"
      inputs == SelectSeq(events, IsInput)
      rapidPairs == {i \in 2..Len(inputs) :
                       inputs[i].timestamp - inputs[i - 1].timestamp < 50}
      clipboard == {i \in 1..Len(events) : events[i].type \in {"copy", "paste", "cut"}}
  IN /\ Reported("Possible copy-paste behavior detected (rapid input)")
          <=> (clipboard = {} /\ Cardinality(rapidPairs) > 3)
     /\ ~(/\ Reported("Possible copy-paste behavior detected (rapid input)")
          /\ Reported("copy-paste operations detected"))

(* C35 witness: a read that reports the fallback label on a log of five    *)
(* input events 40 ms apart and a sixth a second later.                    *)
C35_Witness ==
  /\ lastOp.op = "read"
  /\ Len(events) = 6
  /\ \A i \in 1..6 : events[i].type = "input"
  /\ \A i \in 2..5 : events[i].timestamp - events[i - 1].timestamp = 40
  /\ events[6].timestamp - events[5].timestamp >= 50
  /\ \E i \in 1..Len(detectSuspiciousPatterns(events, now, startTime)) :
       detectSuspiciousPatterns(events, now, startTime)[i].label
         = "Possible copy-paste behavior detected (rapid input)"

(* C36: clearCustomEvents() empties only the custom-event list: after it   *)
(* getCustomEventsCount() is 0 and hasCustomEvent(name) is false for every *)
(* name, and getEvents(), getMetrics().customEventCount, the session id    *)
(* and the stored snapshot are as before.                                  *)
C36_ClearCustomEventsFrame ==
  [][lastOp'.op = "clearCustomEvents"
       => /\ Len(customEvents') = 0
          /\ \A name \in PageCustomNames :
               ~(\E i \in 1..Len(customEvents') :
                   customEvents'[i].customEventName = Some(name))
          /\ events' = events
          /\ getMetrics(events', now', startTime').customEventCount
               = getMetrics(events, now, startTime).customEventCount
          /\ sessionId' = sessionId
          /\ storage' = storage]_vars

(* C36 witness: the custom-event list was just cleared while the log and   *)
(* the stored snapshot hold a custom event.                                *)
C36_Witness ==
  /\ lastOp.op = "clearCustomEvents"
  /\ customEvents = <<>>
  /\ metrics.customEventCount = 1
  /\ storage # None
  /\ \E i \in 1..Len(storedEvents) : Truthy(storedEvents[i].customEventName)

(* C37 (as claimed): in every state getCustomEvents() is the subsequence   *)
(* of getEvents() whose records carry a customEventName, and               *)
(* getCustomEventsCount() equals getMetrics().customEventCount, also after *)
(* clearSession(), clearCustomEvents() and a reconstruction from storage.  *)
C37_CustomListMatchesLog ==
  LET Named(e) == Truthy(e.customEventName) IN
    /\ customEvents = SelectSeq(getEvents(Tracker), Named)
    /\ Len(customEvents) = metrics.customEventCount

(* C38 (as claimed): when two tracker instances share the storage key and  *)
(* their appends interleave, no append of one instance is overwritten by a *)
(* write of the other: an append by either instance leaves every event of  *)
(* the stored snapshot in the snapshot, so that all appended events are    *)
(* stored once the appends have completed.                                 *)
C38_NoLostAppend ==
  [][LET Occurrences(log, e) == Cardinality({i \in 1..Len(log) : log[i] = e})
         appended ==
           \/ lastOp'.op = "other" /\ lastOp'.arg = "trackCustomEvent"
           \/ lastOp'.op \in {"dom", "trackCustomEvent"} /\ Len(events') = Len(events) + 1
     IN appended
          => \A i \in 1..Len(storedEvents) :
               Occurrences(storedEvents', storedEvents[i])
                 >= Occurrences(storedEvents, storedEvents[i])]_vars

(* C38, the part that holds: the snapshot an append writes is the log of   *)
(* the instance that appended, under that instance's session id.           *)
C38_LastWriterWins ==
  [][/\ (lastOp'.op = "other" /\ lastOp'.arg = "trackCustomEvent")
          => storage' = saveSessionData([sessionId |-> others'[1].sessionId,
                                         events |-> others'[1].events])
     /\ (lastOp'.op \in {"dom", "trackCustomEvent"} /\ Len(events') = Len(events) + 1)
          => storage' = saveSessionData([sessionId |-> sessionId', events |-> events'])]_vars

(* C39 (as claimed): on a tracker on which neither startTracking() nor     *)
(* clearSession() has been called, getMetrics().timeSpent is not the raw   *)
(* clock value, and with the default thresholds the risk score has no      *)
(* 'timeSpent > maxTimeSpent' contribution.                                *)
C39_TimeSpentSinceStart ==
  (startTime = 0 /\ ~isTracking /\ options = DefaultOptions)
    => /\ metrics.timeSpent # now
       /\ ~(metrics.timeSpent > options.maxTimeSpent)

(* C39, the part that holds: once startTracking() has been called,         *)
(* timeSpent is the time since that call.                                  *)
C39_TimeSpentAfterStart ==
  isTracking => (metrics.timeSpent = now - startTime /\ startTime >= Epoch)

====
